---- MODULE Spec2Model ----
(***************************************************************************)
(* Orchestration core of the payroll assistant: the collection-level state *)
(* machine (AgentCollection: chat / file / date / task), the per-task      *)
(* execution machine (TaskAgent: prepare .. over), the needed-file         *)
(* planner and cursor, and the desktop front end (ChatGPTApp slots on the  *)
(* UI thread, MgrMessageWorker on the worker thread) that drives them.     *)
(*                                                                         *)
(* Five specifications share the variables:                                *)
(*   Spec      the desktop application.  A slot of the UI thread is a       *)
(*             sequence of calls on the collection, and the worker thread,  *)
(*             which shares the collection without a lock, may process a    *)
(*             queued message between any two of them; it reads the state   *)
(*             again, in a step of its own, when it emits the answer.       *)
(*   SpecTask  one TaskAgent whose methods are called directly.             *)
(*   SpecDate  the collection in state date receiving one typed text.       *)
(*   SpecFile  the collection in state file receiving one or two messages.  *)
(*   SpecRun   the desktop application selecting a task while messages      *)
(*             "yes" wait on the worker thread.                             *)
(* The read-only flag of the input line is not modelled: CustomLineEdit     *)
(* emits returnPressed whether or not the line is read-only, and            *)
(* select_multiple_files sends one message per file in a single slot.       *)
(*                                                                         *)
(* Strings are sequences of one-character strings so that lower(),         *)
(* strip() and the date regular expression are computed, not assumed.      *)
(* Japanese literals of the source are written as a single symbol in       *)
(* angle brackets: "<iie>" is the one character standing for the word      *)
(* iie of no_list, "<hai>" and "<soudesu>" the words of yes_list,          *)
(* "<sukippu>" the word of skip_list.                                      *)
(***************************************************************************)
EXTENDS Integers, Sequences, FiniteSets, TLC

VARIABLES
    ac_state,               \* AgentCollection.state_machine.state
    current_task,           \* AgentCollection.current_task (a task name or "None")
    workflow,               \* AgentCollection.workflow (deque of task names)
    needed_file_list,       \* AgentCollection.needed_file_list
    cur_file_idx,           \* AgentCollection.cur_file_idx (0-based)
    reused_output_file_set, \* AgentCollection.reused_output_file_set
    stored,                 \* definitions with a DataFile row in FileAgent's database
    task_agents,            \* AgentCollection.task_agents: name -> TaskAgent fields
    worker_queue,           \* calls queued on the worker thread (agent_signal)
    worker_answer,          \* the answer the worker holds between the return of
                            \* process_message and its emission (<< >>: none)
    ui_queue,               \* worker signals queued for the UI thread
    ui_ops,                 \* what is left of the slot the UI thread is running
    last,                   \* observation of the step just taken
    events                  \* user actions so far (clicks and messages)

vars == <<ac_state, current_task, workflow, needed_file_list, cur_file_idx,
          reused_output_file_set, stored, task_agents, worker_queue,
          worker_answer, ui_queue, ui_ops, last, events>>

-----------------------------------------------------------------------------
(* Bounds of the model *)

\* calls that may wait on the worker thread at one time
MaxQueue == 3
\* entries the work queue may hold (cell clicks append without limit)
MaxWorkflow == 3
\* signals that may wait for the UI thread at one time
MaxUiQueue == 3
\* user actions (cell clicks, messages, new chats) in one run
MaxEvents == 6

-----------------------------------------------------------------------------
(* The task catalogue (config.json) *)

None == "None"

\* One entry of a task's file list: the keys AgentCollection and TaskAgent read.
FileSpec(name, def, output, required) ==
    [name |-> name, def |-> def, output |-> output, required |-> required]

\* config "tasks": G(1) chains its output into G(2) as definition d2; H has
\* only an optional file; K lists an optional file before a file whose entry
\* has no key for required; M marks two files as output files.
task_info_dict ==
    [t \in {"G(1)", "G(2)", "H", "K", "M"} |->
        CASE t = "G(1)" ->
               [files |-> << FileSpec("f1", "d1", TRUE, TRUE) >>,
                next_task_name |-> "G(2)",
                next_task_replaced_file_name |-> "f2",
                next_task_replaced_file_definition |-> "d2"]
          [] t = "G(2)" ->
               [files |-> << FileSpec("f2", "d2", FALSE, TRUE),
                             FileSpec("f3", "d3", TRUE, FALSE) >>,
                next_task_name |-> None,
                next_task_replaced_file_name |-> None,
                next_task_replaced_file_definition |-> None]
          [] t = "H" ->
               [files |-> << FileSpec("f4", "d4", FALSE, FALSE) >>,
                next_task_name |-> None,
                next_task_replaced_file_name |-> None,
                next_task_replaced_file_definition |-> None]
          [] t = "K" ->
               [files |-> << FileSpec("f5", "d5", FALSE, FALSE),
                             [name |-> "f6", def |-> "d6", output |-> FALSE] >>,
                next_task_name |-> None,
                next_task_replaced_file_name |-> None,
                next_task_replaced_file_definition |-> None]
          [] t = "M" ->
               [files |-> << FileSpec("f7", "d7", TRUE, TRUE),
                             FileSpec("f8", "d8", TRUE, TRUE) >>,
                next_task_name |-> None,
                next_task_replaced_file_name |-> None,
                next_task_replaced_file_definition |-> None]]

TaskNames == DOMAIN task_info_dict

\* the catalogue in configuration order (dict insertion order)
TaskOrder == << "G(1)", "G(2)", "H", "K", "M" >>

Defs == {"d1", "d2", "d3", "d4", "d5", "d6", "d7", "d8"}

\* RequiredFiles taking every file of the task as required
RequiredFilesAll(t) == task_info_dict[t].files

\* the required list taking only the files flagged as required, whether
\* they are output files or not
RequiredFilesByFlag(t) ==
    LET IsReq(f) == IF "required" \in DOMAIN f THEN f.required ELSE TRUE
    IN  SelectSeq(task_info_dict[t].files, IsReq)

\* file_info.get of the key for required: True when the entry has no such key
IsRequired(f) == IF "required" \in DOMAIN f THEN f.required ELSE TRUE

\* TaskAgent._check_file_necessity: the required list
RequiredFiles(t) ==
    LET IsReq(f) == f.output \/ IsRequired(f)
    IN  SelectSeq(task_info_dict[t].files, IsReq)

\* TaskAgent._check_file_necessity: the optional list
OptionalFiles(t) ==
    LET IsOpt(f) == ~f.output /\ ~IsRequired(f)
    IN  SelectSeq(task_info_dict[t].files, IsOpt)

-----------------------------------------------------------------------------
(* Strings *)

\* str.lower() on the letters the messages use
LowerChar(c) ==
    CASE c = "Y" -> "y" [] c = "E" -> "e" [] c = "S" -> "s"
      [] c = "N" -> "n" [] c = "O" -> "o" [] OTHER -> c

lower(s) == [i \in 1..Len(s) |-> LowerChar(s[i])]

IsSpace(c) == c \in {" ", "\n", "\t"}

RECURSIVE lstrip(_)
lstrip(s) == IF s # << >> /\ IsSpace(Head(s)) THEN lstrip(Tail(s)) ELSE s

RECURSIVE rstrip(_)
rstrip(s) ==
    IF s # << >> /\ IsSpace(s[Len(s)]) THEN rstrip(SubSeq(s, 1, Len(s) - 1)) ELSE s

\* str.strip()
strip(s) == rstrip(lstrip(s))

\* what \d matches among the characters of the model
IsDigit(c) == c \in {"0", "1", "2", "3", "4", "5", "6", "7", "8", "9"}

yes_list == { << >>, <<"y","e","s">>, <<"1">>, <<"t","r","u","e">>, <<"y">>,
              <<"<hai>">>, <<"<soudesu>">> }

no_list == { <<"n","o">>, <<"0">>, <<"f","a","l","s","e">>, <<"<iie>">> }

skip_list == { <<"<sukippu>">>, <<"s","k","i","p">> }

\* re.match(r"^\d+$", s): "$" also matches just before a final newline
IsDigitsOnly(s) ==
    LET body == IF s # << >> /\ s[Len(s)] = "\n" THEN SubSeq(s, 1, Len(s) - 1) ELSE s
    IN  body # << >> /\ \A i \in 1..Len(body) : IsDigit(body[i])

\* _is_valid_date_format with "$" taken as the end of the string only and no
\* bound on the month
_is_valid_date_format_any_month(s) ==
    /\ Len(s) = 10
    /\ \A i \in {1, 2, 3, 4, 6, 7, 9, 10} : IsDigit(s[i])
    /\ s[5] = "-"
    /\ s[8] = "-"

\* TaskAgent._is_valid_date_format:
\* re.match(r"^\d{4}-(0[1-9]|1[0-2])-(0[1-9]|[12][0-9]|3[01])$", s).
\* Every alternative is two characters long, so the match is ten characters;
\* "$" matches at the end of the string and just before a final newline.
_is_valid_date_format(s) ==
    /\ \/ Len(s) = 10
       \/ Len(s) = 11 /\ s[11] = "\n"
    /\ \A i \in 1..4 : IsDigit(s[i])
    /\ s[5] = "-"
    /\ \/ s[6] = "0" /\ s[7] \in {"1","2","3","4","5","6","7","8","9"}
       \/ s[6] = "1" /\ s[7] \in {"0","1","2"}
    /\ s[8] = "-"
    /\ \/ s[9] = "0" /\ s[10] \in {"1","2","3","4","5","6","7","8","9"}
       \/ s[9] \in {"1","2"} /\ IsDigit(s[10])
       \/ s[9] = "3" /\ s[10] \in {"0","1"}

-----------------------------------------------------------------------------
(* TaskAgent *)

\* None in a field that otherwise holds a string of the model
NoneStr == << "<None>" >>

\* TaskAgent.__init__: the mutable fields of a fresh agent.  staff_codes,
\* generated_func and prompt_content record whether the field is set (TRUE)
\* or None (FALSE).
NewTaskAgent ==
    [state |-> "prepare", fast_mode |-> FALSE, current_date |-> NoneStr,
     staff_codes |-> FALSE, generated_func |-> FALSE, prompt_content |-> FALSE,
     replaced_file_name |-> None, replaced_file_path |-> None,
     saved_file_path |-> None]

TaskStates == {"prepare", "file", "analysis", "date", "process", "test", "work",
               "revise", "continue", "over"}

\* What a TaskAgent method returns and leaves behind: the agent's fields, the
\* response (a tag for its text; a step prompt is tagged with the step's
\* name), the signal (None, or "RAISE" when the call propagates an exception)
\* and the definitions in the database; attempts is the number of iterations
\* the fast-mode loop of state "process" ran (0 for every other step).
Ret(ta, resp, sig, st) ==
    [ta |-> ta, resp |-> resp, sig |-> sig, stored |-> st, attempts |-> 0]

\* the successor of a state in normal mode
NormalNext(s) ==
    CASE s = "prepare" -> "file"
      [] s = "file" -> "analysis"
      [] s = "analysis" -> "process"
      [] s = "process" -> "test"
      [] s = "test" -> "work"
      [] s = "work" -> "revise"
      [] s = "revise" -> "continue"
      [] s = "continue" -> "over"
      [] OTHER -> s

\* FastNext with the fast order running through "analysis"
FastNextThroughAnalysis(s) ==
    CASE s = "prepare" -> "file"
      [] s = "file" -> "analysis"
      [] s = "analysis" -> "process"
      [] s = "process" -> "over"
      [] OTHER -> s

\* the successor of a state in fast mode
FastNext(s) ==
    CASE s = "prepare" -> "file"
      [] s = "file" -> "process"
      [] s = "process" -> "over"
      [] OTHER -> s

\* TaskAgent.set_next_state
set_next_state(ta) ==
    [ta EXCEPT !.state = IF ~ta.fast_mode THEN NormalNext(ta.state)
                         ELSE FastNext(ta.state)]

\* the signal get_nextstep / get_currentstep attach to a state
StepSignal(s, withPrepare) ==
    IF s \in {"file", "analysis", "process", "test", "work", "revise",
              "continue", "over"}
    THEN s
    ELSE IF s = "prepare" /\ withPrepare THEN "prepare" ELSE None

\* the text get_nextstep / get_currentstep attach to a state: the prompt of
\* the step, tagged with its name; None for "over"
StepText(s, withPrepare) ==
    IF s = "over" THEN None ELSE StepSignal(s, withPrepare)

\* TaskAgent.get_nextstep
get_nextstep(ta, st) ==
    LET n == set_next_state(ta)
    IN  Ret(n, StepText(n.state, FALSE), StepSignal(n.state, FALSE), st)

\* TaskAgent.get_currentstep
get_currentstep(ta, st) ==
    Ret(ta, StepText(ta.state, TRUE), StepSignal(ta.state, TRUE), st)

WaitYes(ta, st) == Ret(ta, "waiting for yes", None, st)

\* where save_result_to_csv writes the result of task t
OutPath(t) ==
    CASE t = "G(1)" -> "output/G(1)" [] t = "G(2)" -> "output/G(2)" [] OTHER -> "output/H"

\* TaskAgent.save_result_to_csv: o.save is whether writing and storing succeed
save_result_to_csv(t, ta, st, o) ==
    IF o.save = "ok"
    THEN [ta |-> [ta EXCEPT !.saved_file_path = OutPath(t)],
          stored |-> IF task_info_dict[t].next_task_replaced_file_definition # None
                     THEN st \cup {task_info_dict[t].next_task_replaced_file_definition}
                     ELSE st]
    ELSE [ta |-> [ta EXCEPT !.state = "over"], stored |-> st]

\* TaskAgent.process_prepare
process_prepare(ta, st, message) ==
    IF message \notin yes_list THEN WaitYes(ta, st) ELSE get_nextstep(ta, st)

(* The outcome o of the external calls of one step:                         *)
(*   o.load  load_data_as_df_by_definition / df["staff code"]: "ok", "raise" *)
(*           (a definition that is not stored raises whatever o.load is)     *)
(*   o.rule  reading the rule file: "ok", "raise"                            *)
(*   o.chat  chat_agent.execute: "ok", "raise"                               *)
(*   o.gen   one record per code-generation attempt: raise (generation or    *)
(*           import raised), res / err (staff codes that gave a DataFrame /  *)
(*           that raised or gave something else)                             *)
(*   o.test  the generated function on the tested staff code                 *)
(*   o.save  to_csv and store_csv_file of the result                         *)

\* the staff-code loop over a generated function: what the attempt gives
\* when staff_codes is None or empty the loop body never runs
Attempt(ta, a) ==
    IF ta.staff_codes THEN a ELSE [a EXCEPT !.res = 0, !.err = 0]

\* the loop of state "process" taking any attempt with a result as success
RECURSIVE FastProcessLoopAnyResult(_, _, _, _, _)
FastProcessLoopAnyResult(t, ta, st, o, i) ==
    LET max_loop_times == 2
        a == Attempt(ta, o.gen[i])
        gen == [ta EXCEPT !.generated_func = TRUE]
        sv == save_result_to_csv(t, gen, st, o)
        Ran(r) == [r EXCEPT !.attempts = i]
    IN  IF i > max_loop_times
        THEN [Ret(ta, None, "over", st) EXCEPT !.attempts = i - 1]
        ELSE IF o.gen[i].raise
        THEN IF i + 1 > max_loop_times
             THEN Ran(Ret([ta EXCEPT !.state = "over"], "error", "early exit", st))
             ELSE FastProcessLoopAnyResult(t, ta, st, o, i + 1)
        ELSE IF a.res > 0
        THEN Ran(Ret([sv.ta EXCEPT !.state = "over"], "done", "over", sv.stored))
        ELSE IF a.res = 0 /\ i + 1 > max_loop_times
        THEN Ran(Ret([gen EXCEPT !.state = "over"], "no result", "early exit", st))
        ELSE FastProcessLoopAnyResult(t, gen, st, o, i + 1)

\* the loop of state "process" answering over when the attempts are
\* exhausted without a result
RECURSIVE FastProcessLoopOverWhenExhausted(_, _, _, _, _)
FastProcessLoopOverWhenExhausted(t, ta, st, o, i) ==
    LET max_loop_times == 2
        a == Attempt(ta, o.gen[i])
        gen == [ta EXCEPT !.generated_func = TRUE]
        sv == save_result_to_csv(t, gen, st, o)
        Ran(r) == [r EXCEPT !.attempts = i]
    IN  IF i > max_loop_times
        THEN [Ret(ta, None, "over", st) EXCEPT !.attempts = i - 1]
        ELSE IF o.gen[i].raise
        THEN IF i + 1 > max_loop_times
             THEN Ran(Ret([ta EXCEPT !.state = "over"], "error", "early exit", st))
             ELSE FastProcessLoopOverWhenExhausted(t, ta, st, o, i + 1)
        ELSE IF a.res > 0 /\ (a.err = 0 \/ i + 1 > max_loop_times)
        THEN Ran(Ret([sv.ta EXCEPT !.state = "over"], "done", "over", sv.stored))
        ELSE IF a.res = 0 /\ i + 1 > max_loop_times
        THEN Ran(Ret([gen EXCEPT !.state = "over"], "no result", "over", st))
        ELSE FastProcessLoopOverWhenExhausted(t, gen, st, o, i + 1)

\* TaskAgent._process_message_fast_mode, state "process": attempt number i
\* of the while loop (attempts = i + 1 after the increment)
RECURSIVE FastProcessLoop(_, _, _, _, _)
FastProcessLoop(t, ta, st, o, i) ==
    LET max_loop_times == 2
        a == Attempt(ta, o.gen[i])
        gen == [ta EXCEPT !.generated_func = TRUE]
        sv == save_result_to_csv(t, gen, st, o)
        Ran(r) == [r EXCEPT !.attempts = i]
    IN  IF i > max_loop_times
        THEN [Ret(ta, None, "over", st) EXCEPT !.attempts = i - 1]
        ELSE IF o.gen[i].raise
        THEN IF i + 1 > max_loop_times
             THEN Ran(Ret([ta EXCEPT !.state = "over"], "error", "early exit", st))
             ELSE FastProcessLoop(t, ta, st, o, i + 1)
        ELSE IF a.res > 0 /\ (a.err = 0 \/ i + 1 > max_loop_times)
        THEN Ran(Ret([sv.ta EXCEPT !.state = "over"], "done", "over", sv.stored))
        ELSE IF a.res = 0 /\ i + 1 > max_loop_times
        THEN Ran(Ret([gen EXCEPT !.state = "over"], "no result", "early exit", st))
        ELSE FastProcessLoop(t, gen, st, o, i + 1)

\* TaskAgent._process_file_message, the loop over files and optional files:
\* "raise" when a load raises, "multi" when a second output file is met
RECURSIVE LoadFiles(_, _, _, _)
LoadFiles(files, staff, st, o) ==
    IF files = << >> THEN [kind |-> "ok", staff |-> staff]
    ELSE LET f == Head(files)
         IN  IF f.def \notin st \/ o.load = "raise"
             THEN [kind |-> "raise", staff |-> staff]
             ELSE IF f.output /\ staff
             THEN [kind |-> "multi", staff |-> staff]
             ELSE LoadFiles(Tail(files), staff \/ f.output, st, o)

\* TaskAgent._process_file_message
task_process_file_message(t, ta, st, o) ==
    LET r == LoadFiles(RequiredFiles(t) \o OptionalFiles(t), ta.staff_codes, st, o)
        loaded == [ta EXCEPT !.staff_codes = r.staff]
    IN  CASE r.kind = "raise" ->
               Ret([loaded EXCEPT !.state = "over"], "error", "early exit", st)
          [] r.kind = "multi" ->
               Ret([loaded EXCEPT !.state = "over"], "several output files", "over", st)
          [] OTHER ->
               IF ta.fast_mode /\ o.rule = "raise"
               THEN Ret([loaded EXCEPT !.state = "over"], "error", "early exit", st)
               ELSE get_nextstep(
                        [loaded EXCEPT !.prompt_content =
                                           IF ta.fast_mode THEN TRUE ELSE @], st)

\* TaskAgent._analysis_files
_analysis_files(ta, st, o) ==
    IF o.chat = "raise" \/ o.rule = "raise"
    THEN Ret(ta, "error", "early exit", st)
    ELSE get_nextstep([ta EXCEPT !.prompt_content = TRUE], st)

\* TaskAgent.process_analysis
process_analysis(ta, st, message, o) ==
    IF message \in skip_list
    THEN IF o.rule = "raise" THEN Ret(ta, "raised", "RAISE", st)
         ELSE get_nextstep([ta EXCEPT !.prompt_content = TRUE], st)
    ELSE IF message \notin yes_list THEN WaitYes(ta, st)
    ELSE _analysis_files(ta, st, o)

\* TaskAgent._generate_function
_generate_function(ta, st, o) ==
    IF o.gen[1].raise
    THEN Ret([ta EXCEPT !.state = "over"], "error", "early exit", st)
    ELSE get_nextstep([ta EXCEPT !.generated_func = TRUE], st)

\* TaskAgent.process_generation
process_generation(ta, st, message, o) ==
    IF message \notin yes_list THEN WaitYes(ta, st) ELSE _generate_function(ta, st, o)

\* TaskAgent._test_one_staffcode
_test_one_staffcode(ta, st, cleaned_message, o) ==
    IF ~IsDigitsOnly(cleaned_message) THEN Ret(ta, "enter a staff code or yes", None, st)
    ELSE IF ~ta.generated_func \/ o.test = "raise"
    THEN Ret([ta EXCEPT !.state = "over"], "test error", "early exit", st)
    ELSE get_nextstep(ta, st)

\* process_test handing every text to _test_one_staffcode
process_test_runs_first(ta, st, message, o) ==
    _test_one_staffcode(ta, st, strip(message), o)

\* TaskAgent.process_test
process_test(ta, st, message, o) ==
    LET cleaned_message == strip(message)
    IN  IF lower(cleaned_message) \in yes_list THEN get_nextstep(ta, st)
        ELSE _test_one_staffcode(ta, st, cleaned_message, o)

\* _process_all_staffcodes going on to the revise prompt whatever the errors
_process_all_staffcodes_to_revise(t, ta, st, o) ==
    LET a == IF ta.generated_func THEN o.gen[1]
             ELSE [o.gen[1] EXCEPT !.res = 0]
        sv == save_result_to_csv(t, ta, st, o)
    IN  IF ~ta.staff_codes THEN Ret(ta, "no staff codes", None, st)
        ELSE IF a.res > 0 THEN get_nextstep(sv.ta, sv.stored)
        ELSE get_nextstep(ta, st)

\* TaskAgent._process_all_staffcodes: without a generated function every
\* call raises and is counted as an error of its staff code
_process_all_staffcodes(t, ta, st, o) ==
    LET a == IF ta.generated_func THEN o.gen[1]
             ELSE [o.gen[1] EXCEPT !.res = 0]
        sv == save_result_to_csv(t, ta, st, o)
        once == get_nextstep(sv.ta, sv.stored)
    IN  IF ~ta.staff_codes THEN Ret(ta, "no staff codes", None, st)
        ELSE IF a.res > 0
        THEN IF a.err # 0 THEN once
             ELSE get_nextstep(once.ta, once.stored)
        ELSE get_nextstep(ta, st)

\* TaskAgent.process_work
process_work(t, ta, st, message, o) ==
    IF message \notin yes_list THEN WaitYes(ta, st)
    ELSE _process_all_staffcodes(t, ta, st, o)

\* _try_again moving on to the next step whenever the retry gave a result
_try_again_moves_on(t, ta, st, o) ==
    LET gen == [ta EXCEPT !.generated_func = TRUE]
        a == o.gen[1]
        sv == save_result_to_csv(t, gen, st, o)
    IN  IF a.raise THEN get_currentstep(ta, st)
        ELSE IF ~ta.staff_codes THEN get_currentstep(gen, st)
        ELSE IF a.res > 0 THEN get_nextstep(sv.ta, sv.stored)
        ELSE get_currentstep(gen, st)

\* TaskAgent._try_again: iterating staff_codes that is None raises into the
\* outer handler, like a failed generation
_try_again(t, ta, st, o) ==
    LET gen == [ta EXCEPT !.generated_func = TRUE]
        a == o.gen[1]
        sv == save_result_to_csv(t, gen, st, o)
    IN  IF a.raise THEN get_currentstep(ta, st)
        ELSE IF ~ta.staff_codes THEN get_currentstep(gen, st)
        ELSE IF a.res > 0
        THEN IF a.err # 0 THEN get_currentstep(sv.ta, sv.stored)
             ELSE get_nextstep(sv.ta, sv.stored)
        ELSE get_currentstep(gen, st)

\* TaskAgent.process_revise
process_revise(t, ta, st, message, o) ==
    IF message \in skip_list THEN get_nextstep(ta, st)
    ELSE IF message \notin yes_list THEN WaitYes(ta, st)
    ELSE _try_again(t, ta, st, o)

\* the text of process_continue: it quotes the name of the next task
GoingTo(next_task_name) ==
    CASE next_task_name = "G(1)" -> "going to the next task G(1)"
      [] next_task_name = "G(2)" -> "going to the next task G(2)"
      [] next_task_name = "H" -> "going to the next task H"
      [] next_task_name = "K" -> "going to the next task K"
      [] next_task_name = "M" -> "going to the next task M"
      [] OTHER -> "going to the next task None"

\* process_continue going on whatever the message
process_continue_any_text(t, ta, st, message) ==
    Ret(ta, GoingTo(task_info_dict[t].next_task_name), "next_task", st)

\* TaskAgent.process_continue
process_continue(t, ta, st, message) ==
    IF message \notin yes_list THEN WaitYes(ta, st)
    ELSE Ret(ta, GoingTo(task_info_dict[t].next_task_name), "next_task", st)

\* TaskAgent._process_message_normal_mode
_process_message_normal_mode(t, ta, st, message, o) ==
    CASE ta.state = "prepare" -> process_prepare(ta, st, message)
      [] ta.state = "file" -> task_process_file_message(t, ta, st, o)
      [] ta.state = "analysis" -> process_analysis(ta, st, message, o)
      [] ta.state = "process" -> process_generation(ta, st, message, o)
      [] ta.state = "test" -> process_test(ta, st, message, o)
      [] ta.state = "work" -> process_work(t, ta, st, message, o)
      [] ta.state = "revise" -> process_revise(t, ta, st, message, o)
      [] ta.state = "continue" -> process_continue(t, ta, st, message)
      [] OTHER -> Ret(ta, "all steps are complete", "over", st)

\* TaskAgent._process_message_fast_mode
_process_message_fast_mode(t, ta, st, message, o) ==
    IF strip(lower(message)) \in no_list
    THEN Ret(ta, "ending the process", "early exit", st)
    ELSE CASE ta.state = "prepare" -> get_nextstep(ta, st)
           [] ta.state = "file" -> task_process_file_message(t, ta, st, o)
           [] ta.state = "process" -> FastProcessLoop(t, ta, st, o, 1)
           [] OTHER -> Ret(ta, None, "over", st)

\* task_process_message with the no-variants left to the state handlers
task_process_message_no_late(t, ta, st, message, o) ==
    IF Len(RequiredFiles(t)) = 0
    THEN Ret(ta, "an output file is required", "early exit", st)
    ELSE IF ~ta.fast_mode
    THEN _process_message_normal_mode(t, ta, st, message, o)
    ELSE _process_message_fast_mode(t, ta, st, message, o)

\* TaskAgent.process_message
task_process_message(t, ta, st, message, o) ==
    IF strip(lower(message)) \in no_list
    THEN Ret(ta, "ending the process", "early exit", st)
    ELSE IF Len(RequiredFiles(t)) = 0
    THEN Ret(ta, "an output file is required", "early exit", st)
    ELSE IF ~ta.fast_mode
    THEN _process_message_normal_mode(t, ta, st, message, o)
    ELSE _process_message_fast_mode(t, ta, st, message, o)

\* TaskAgent.reset
task_reset(ta) ==
    [ta EXCEPT !.state = "prepare", !.generated_func = FALSE,
               !.staff_codes = FALSE, !.prompt_content = FALSE,
               !.replaced_file_name = None, !.replaced_file_path = None]

-----------------------------------------------------------------------------
(* AgentCollection.  Its operators work on a record c of its fields.       *)

\* the fields of the collection (and of its FileAgent and TaskAgents) now
AC ==
    [ac_state |-> ac_state, current_task |-> current_task, workflow |-> workflow,
     needed_file_list |-> needed_file_list, cur_file_idx |-> cur_file_idx,
     reused_output_file_set |-> reused_output_file_set, stored |-> stored,
     task_agents |-> task_agents]

\* the fields of the collection after the step are those of c
Becomes(c) ==
    /\ ac_state' = c.ac_state
    /\ current_task' = c.current_task
    /\ workflow' = c.workflow
    /\ needed_file_list' = c.needed_file_list
    /\ cur_file_idx' = c.cur_file_idx
    /\ reused_output_file_set' = c.reused_output_file_set
    /\ stored' = c.stored
    /\ task_agents' = c.task_agents

\* what a method of the collection returns and leaves behind
ARet(c, resp, sig) == [c |-> c, resp |-> resp, sig |-> sig]

\* set_state leaving the state as it is
set_state_ignored(c, s) == c

\* AgentCollection.set_state
set_state(c, s) == [c EXCEPT !.ac_state = s]

\* set_task_speed_mode with fast mode from three queued tasks on
set_task_speed_mode_from_three(c) ==
    LET queued == {c.workflow[i] : i \in DOMAIN c.workflow}
        mode == Len(c.workflow) > 2
    IN  [c EXCEPT !.task_agents =
            [t \in TaskNames |->
                IF t \in queued THEN [c.task_agents[t] EXCEPT !.fast_mode = mode]
                ELSE c.task_agents[t]]]

\* AgentCollection.set_task_speed_mode
set_task_speed_mode(c) ==
    LET queued == {c.workflow[i] : i \in DOMAIN c.workflow}
        mode == Len(c.workflow) > 1
    IN  [c EXCEPT !.task_agents =
            [t \in TaskNames |->
                IF t \in queued THEN [c.task_agents[t] EXCEPT !.fast_mode = mode]
                ELSE c.task_agents[t]]]

\* _process_date_message stamping the queued tasks only
_process_date_message_queued_only(c, message) ==
    LET message_lower == lower(message)
        queued == {c.workflow[i] : i \in DOMAIN c.workflow}
    IN  IF ~_is_valid_date_format(message_lower)
        THEN [c |-> c, resp |-> "check the date format", sig |-> ""]
        ELSE [c |-> [c EXCEPT !.task_agents =
                        [t \in TaskNames |->
                            IF t \in queued
                            THEN [c.task_agents[t] EXCEPT !.current_date = message_lower]
                            ELSE c.task_agents[t]]],
              resp |-> "the date is set", sig |-> "switch task"]

\* AgentCollection._process_date_message
_process_date_message(c, message) ==
    LET message_lower == lower(message)
    IN  IF ~_is_valid_date_format(message_lower)
        THEN ARet(c, "check the date format", "")
        ELSE ARet([c EXCEPT !.task_agents =
                      [t \in TaskNames |->
                          [c.task_agents[t] EXCEPT !.current_date = message_lower]]],
                  "the date is set", "switch task")

\* one needed file: the file's entry tagged with the task it came from
Needed(t, f) == [name |-> f.name, def |-> f.def, output |-> f.output, task |-> t]

RECURSIVE NeededOfOptionalFirst(_)
\* the walk over the work queue listing the optional files of a task before
\* its required files
NeededOfOptionalFirst(wf) ==
    IF wf = << >> THEN << >>
    ELSE LET t == Head(wf)
             fs == OptionalFiles(t) \o RequiredFiles(t)
         IN  [i \in 1..Len(fs) |-> Needed(t, fs[i])] \o NeededOfOptionalFirst(Tail(wf))

RECURSIVE NeededOf(_)
\* AgentCollection._collect_all_needed_files, the walk over the work queue:
\* per task its required files, then its optional files
NeededOf(wf) ==
    IF wf = << >> THEN << >>
    ELSE LET t == Head(wf)
             fs == RequiredFiles(t) \o OptionalFiles(t)
         IN  [i \in 1..Len(fs) |-> Needed(t, fs[i])] \o NeededOf(Tail(wf))

\* AgentCollection._collect_all_needed_files
_collect_all_needed_files(c) ==
    [c EXCEPT !.needed_file_list = NeededOf(c.workflow),
              !.reused_output_file_set =
                  {task_info_dict[c.workflow[i]].next_task_replaced_file_definition :
                       i \in DOMAIN c.workflow} \ {None},
              !.cur_file_idx = 0]

\* AgentCollection.process_files
process_files(c) ==
    LET f == set_state(c, "file")
        p == _collect_all_needed_files(f)
    IN  IF p.needed_file_list = << >>
        THEN ARet(p, "this task needs no file", "no_files")
        ELSE ARet(p, "upload the file at the cursor", "")

\* the text the file dialog puts before the path of a chosen file
FilePrefix == "<selected file: >"

\* message.replace(FilePrefix, "").strip()
FilePath(message) ==
    LET NotPrefix(ch) == ch # FilePrefix
    IN  strip(SelectSeq(message, NotPrefix))

\* the file system: the paths os.path.isfile answers True for
ExistingFiles == { <<"a", ".", "c", "s", "v">>, <<"a", ".", "t", "x", "t">> }

\* endswith answering True for every suffix
endswith_anything(s, suffix) == TRUE

\* str.endswith
endswith(s, suffix) ==
    /\ Len(s) >= Len(suffix)
    /\ SubSeq(s, Len(s) - Len(suffix) + 1, Len(s)) = suffix

\* the file at 0-based index i of the needed-file list is satisfied
Satisfied(c, i) ==
    \/ c.needed_file_list[i + 1].def \in c.stored
    \/ c.needed_file_list[i + 1].def \in c.reused_output_file_set

\* SkipSatisfied without the walk over the satisfied files
SkipSatisfiedNone(c, i) == i

RECURSIVE SkipSatisfied(_, _)
\* AgentCollection._process_file_message, the while loop after the store:
\* the first index from i on whose file is not satisfied, or the length
SkipSatisfied(c, i) ==
    IF i < Len(c.needed_file_list) /\ Satisfied(c, i)
    THEN SkipSatisfied(c, i + 1)
    ELSE i

\* date.today().strftime("%Y-%m-%d")
Today == <<"2","0","2","4","-","0","1","-","3","1">>

(* The outcome o of the external calls also has:                            *)
(*   o.validator  _create_df_from_user_file and _process_df: "ok",           *)
(*                "mismatch" (no DataFrame), "raise"                         *)
(*   o.store      store_csv_file: "ok", "raise"                              *)
(*   o.intent     the classifier's intent, or "raise"                        *)
(*   o.chat       for a question: rag_agent.execute, "ok" or "raise"         *)

\* _process_file_message asking for the date after the last file instead of
\* processing today's date
ac_process_file_message_asks_date(c, message, o) ==
    LET file_path == FilePath(message)
        current_file == c.needed_file_list[c.cur_file_idx + 1]
        kept == [c EXCEPT !.stored = @ \cup {current_file.def}]
        moved == [kept EXCEPT !.cur_file_idx = SkipSatisfied(kept, c.cur_file_idx + 1)]
    IN  IF file_path \notin ExistingFiles
        THEN ARet(c, "invalid file path", "")
        ELSE IF ~(\/ endswith(lower(file_path), <<".", "c", "s", "v">>)
                  \/ endswith(lower(file_path), <<".", "x", "l", "s", "x">>))
        THEN ARet(c, "only excel and csv files", "")
        ELSE IF c.cur_file_idx >= Len(c.needed_file_list) \/ o.validator = "raise"
        THEN ARet(set_state(c, "chat"), "error", "")
        ELSE IF o.validator = "mismatch"
        THEN ARet(c, "the file does not match", "")
        ELSE IF o.store = "raise"
        THEN ARet(set_state(c, "chat"), "error", "")
        ELSE IF moved.cur_file_idx = Len(moved.needed_file_list)
        THEN ARet(set_state(moved, "date"), "check the date format", "")
        ELSE ARet(moved, "upload the file at the cursor", "")

\* _process_file_message taking the cursor back to the first file when the
\* store fails
ac_process_file_message_rewinds(c, message, o) ==
    LET file_path == FilePath(message)
        current_file == c.needed_file_list[c.cur_file_idx + 1]
        kept == [c EXCEPT !.stored = @ \cup {current_file.def}]
        moved == [kept EXCEPT !.cur_file_idx = SkipSatisfied(kept, c.cur_file_idx + 1)]
    IN  IF file_path \notin ExistingFiles
        THEN ARet(c, "invalid file path", "")
        ELSE IF ~(\/ endswith(lower(file_path), <<".", "c", "s", "v">>)
                  \/ endswith(lower(file_path), <<".", "x", "l", "s", "x">>))
        THEN ARet(c, "only excel and csv files", "")
        ELSE IF c.cur_file_idx >= Len(c.needed_file_list) \/ o.validator = "raise"
        THEN ARet(set_state(c, "chat"), "error", "")
        ELSE IF o.validator = "mismatch"
        THEN ARet(c, "the file does not match", "")
        ELSE IF o.store = "raise"
        THEN ARet(set_state([c EXCEPT !.cur_file_idx = 0], "chat"), "error", "")
        ELSE IF moved.cur_file_idx = Len(moved.needed_file_list)
        THEN _process_date_message(set_state(moved, "date"), Today)
        ELSE ARet(moved, "upload the file at the cursor", "")

\* AgentCollection._process_file_message
ac_process_file_message(c, message, o) ==
    LET file_path == FilePath(message)
        current_file == c.needed_file_list[c.cur_file_idx + 1]
        kept == [c EXCEPT !.stored = @ \cup {current_file.def}]
        moved == [kept EXCEPT !.cur_file_idx = SkipSatisfied(kept, c.cur_file_idx + 1)]
    IN  IF file_path \notin ExistingFiles
        THEN ARet(c, "invalid file path", "")
        ELSE IF ~(\/ endswith(lower(file_path), <<".", "c", "s", "v">>)
                  \/ endswith(lower(file_path), <<".", "x", "l", "s", "x">>))
        THEN ARet(c, "only excel and csv files", "")
        ELSE IF c.cur_file_idx >= Len(c.needed_file_list) \/ o.validator = "raise"
        THEN ARet(set_state(c, "chat"), "error", "")
        ELSE IF o.validator = "mismatch"
        THEN ARet(c, "the file does not match", "")
        ELSE IF o.store = "raise"
        THEN ARet(set_state(c, "chat"), "error", "")
        ELSE IF moved.cur_file_idx = Len(moved.needed_file_list)
        THEN _process_date_message(set_state(moved, "date"), Today)
        ELSE ARet(moved, "upload the file at the cursor", "")

\* IntentType: the values the classifier's answer is matched against
IntentType == {"task_start", "question", "file_upload", "confirmation",
               "return_to_menu", "unknown"}

\* route_intent forwarding a confirmation whenever a task is current,
\* whatever the orchestration state
route_intent_forwards_in_any_state(c, intent_str, message, o) ==
    LET intent == IF intent_str \in IntentType THEN intent_str ELSE "unknown"
        t == c.current_task
        r == task_process_message(t, c.task_agents[t], c.stored, message, o)
        f == ac_process_file_message(c, message, o)
    IN  CASE intent = "return_to_menu" ->
               ARet(set_state(c, "chat"), "back to the menu", "")
          [] intent = "confirmation" ->
               IF t # None
               THEN IF r.sig = "RAISE" THEN ARet(c, "error", "error")
                    ELSE ARet([c EXCEPT !.task_agents[t] = r.ta, !.stored = r.stored],
                              r.resp, r.sig)
               ELSE ARet(c, "no task needs a confirmation", "")
          [] intent = "task_start" -> ARet(c, "error", "error")
          [] intent = "file_upload" ->
               IF c.ac_state = "file" THEN f
               ELSE IF c.ac_state = "chat" THEN ARet(c, "file identity", "")
               ELSE ARet(c, "no response was generated", "")
          [] intent = "question" ->
               IF o.chat = "raise" THEN ARet(c, "error", "error")
               ELSE ARet(c, "answer", "")
          [] OTHER -> ARet(c, "intent not understood", "")

\* AgentCollection.route_intent (intent_str is the classifier's answer).
\* AgentCollection defines no parse_task_names, so the task_start branch
\* raises AttributeError into the handler of the method.
route_intent(c, intent_str, message, o) ==
    LET intent == IF intent_str \in IntentType THEN intent_str ELSE "unknown"
        t == c.current_task
        r == task_process_message(t, c.task_agents[t], c.stored, message, o)
        f == ac_process_file_message(c, message, o)
    IN  CASE intent = "return_to_menu" ->
               ARet(set_state(c, "chat"), "back to the menu", "")
          [] intent = "confirmation" ->
               IF c.ac_state = "task" /\ t # None
               THEN IF r.sig = "RAISE" THEN ARet(c, "error", "error")
                    ELSE ARet([c EXCEPT !.task_agents[t] = r.ta, !.stored = r.stored],
                              r.resp, r.sig)
               ELSE ARet(c, "no task needs a confirmation", "")
          [] intent = "task_start" -> ARet(c, "error", "error")
          [] intent = "file_upload" ->
               IF c.ac_state = "file" THEN f
               ELSE IF c.ac_state = "chat" THEN ARet(c, "file identity", "")
               ELSE ARet(c, "no response was generated", "")
          [] intent = "question" ->
               IF o.chat = "raise" THEN ARet(c, "error", "error")
               ELSE ARet(c, "answer", "")
          [] OTHER -> ARet(c, "intent not understood", "")

\* process_message without the handler around the classifier: its exception
\* propagates to the caller
ac_process_message_unguarded(c, message, o) ==
    LET t == c.current_task
        r == task_process_message(t, c.task_agents[t], c.stored, message, o)
    IN  IF c.ac_state = "date" THEN _process_date_message(c, message)
        ELSE IF c.ac_state = "task"
        THEN IF t # None
             THEN IF r.sig = "RAISE" THEN ARet(c, "error", "error")
                  ELSE ARet([c EXCEPT !.task_agents[t] = r.ta, !.stored = r.stored],
                            r.resp, r.sig)
             ELSE ARet(c, "task selection failed", "")
        ELSE IF o.intent = "raise" THEN ARet(c, "raised", "RAISE")
        ELSE route_intent(c, o.intent, message, o)

\* process_message going back to state chat when the classifier or the
\* routing raises
ac_process_message_error_to_chat(c, message, o) ==
    LET t == c.current_task
        r == task_process_message(t, c.task_agents[t], c.stored, message, o)
        routed == route_intent(c, o.intent, message, o)
    IN  IF c.ac_state = "date" THEN _process_date_message(c, message)
        ELSE IF c.ac_state = "task"
        THEN IF t # None
             THEN IF r.sig = "RAISE" THEN ARet(c, "error", "error")
                  ELSE ARet([c EXCEPT !.task_agents[t] = r.ta, !.stored = r.stored],
                            r.resp, r.sig)
             ELSE ARet(c, "task selection failed", "")
        ELSE IF o.intent = "raise" THEN ARet(set_state(c, "chat"), "error", "error")
        ELSE IF routed.sig = "error" THEN ARet(set_state(c, "chat"), "error", "error")
        ELSE routed

\* AgentCollection.process_message
ac_process_message(c, message, o) ==
    LET t == c.current_task
        r == task_process_message(t, c.task_agents[t], c.stored, message, o)
    IN  IF c.ac_state = "date" THEN _process_date_message(c, message)
        ELSE IF c.ac_state = "task"
        THEN IF t # None
             THEN IF r.sig = "RAISE" THEN ARet(c, "error", "error")
                  ELSE ARet([c EXCEPT !.task_agents[t] = r.ta, !.stored = r.stored],
                            r.resp, r.sig)
             ELSE ARet(c, "task selection failed", "")
        ELSE IF o.intent = "raise" THEN ARet(c, "error", "error")
        ELSE route_intent(c, o.intent, message, o)

\* AgentCollection.set_current_task_agent
set_current_task_agent(c, task_name) ==
    IF task_name \in TaskNames
    THEN [c |-> set_state([c EXCEPT !.current_task = task_name], "chat"), ok |-> TRUE]
    ELSE [c |-> c, ok |-> FALSE]

\* AgentCollection.reset_task
reset_task(c, task_name) ==
    IF task_name \in TaskNames
    THEN [c EXCEPT !.task_agents[task_name] = task_reset(@)]
    ELSE c

\* AgentCollection.reset_all_task_agents
reset_all_task_agents(c) ==
    set_state([c EXCEPT !.task_agents = [t \in TaskNames |-> task_reset(c.task_agents[t])],
                        !.current_task = None],
              "chat")

\* AgentCollection.get_grouped_tasks: the key of a task is its name up to "("
GroupOf(t) == CASE t = "G(1)" -> "G" [] t = "G(2)" -> "G" [] OTHER -> t

GroupNames == {GroupOf(t) : t \in TaskNames}

\* AgentCollection.get_grouped_tasks: the tasks of a group, in catalogue order
TasksInGroup(g) ==
    LET InGroup(t) == GroupOf(t) = g
    IN  SelectSeq(TaskOrder, InGroup)

-----------------------------------------------------------------------------
(* Outcomes of the external calls *)

NoAttempt == [raise |-> FALSE, res |-> 0, err |-> 0]

\* every external call succeeds; no staff code gives a result
DefaultOutcome ==
    [intent |-> "unknown", validator |-> "ok", store |-> "ok", load |-> "ok",
     rule |-> "ok", chat |-> "ok", test |-> "ok", save |-> "ok",
     gen |-> << NoAttempt, NoAttempt >>]

\* what one code-generation attempt can give: it raises, or the function runs
\* on the staff codes (res of them give a DataFrame, err of them do not)
Attempts ==
    {[NoAttempt EXCEPT !.raise = TRUE]}
    \cup [raise : {FALSE}, res : {0, 1}, err : {0, 1}]

OkRaise == {"ok", "raise"}

\* the outcomes that differ in the calls a task step in state s makes
TaskOutcomes(s, fast) ==
    CASE s = "file" ->
           {[DefaultOutcome EXCEPT !.load = l, !.rule = r] : l \in OkRaise, r \in OkRaise}
      [] s = "analysis" ->
           {[DefaultOutcome EXCEPT !.chat = x, !.rule = r] : x \in OkRaise, r \in OkRaise}
      [] s = "process" /\ ~fast ->
           {[DefaultOutcome EXCEPT !.gen = << a, NoAttempt >>] : a \in Attempts}
      [] s = "process" /\ fast ->
           {[DefaultOutcome EXCEPT !.gen = << a, b >>, !.save = v] :
                a \in Attempts, b \in Attempts, v \in OkRaise}
      [] s = "test" ->
           {[DefaultOutcome EXCEPT !.test = x] : x \in OkRaise}
      [] s \in {"work", "revise"} ->
           {[DefaultOutcome EXCEPT !.gen = << a, NoAttempt >>, !.save = v] :
                a \in Attempts, v \in OkRaise}
      [] OTHER -> {DefaultOutcome}

\* what the classifier answers: an intent of IntentType, another string
\* ("greeting"), or it raises
Intents == {"task_start", "file_upload", "confirmation", "return_to_menu",
            "question", "greeting", "raise"}

\* the outcomes that differ in the calls of intent routing from state s
RouteOutcomes(s) ==
    {[DefaultOutcome EXCEPT !.intent = i] : i \in Intents \ {"file_upload"}}
    \cup {[DefaultOutcome EXCEPT !.intent = "question", !.chat = "raise"]}
    \cup (IF s = "file"
          THEN {[DefaultOutcome EXCEPT !.intent = "file_upload", !.validator = v] :
                    v \in {"ok", "mismatch", "raise"}}
               \cup {[DefaultOutcome EXCEPT !.intent = "file_upload", !.store = "raise"]}
          ELSE {[DefaultOutcome EXCEPT !.intent = "file_upload"]})

\* the outcomes of the calls AgentCollection.process_message makes from c
ACOutcomes(c) ==
    IF c.ac_state = "date" THEN {DefaultOutcome}
    ELSE IF c.ac_state = "task"
    THEN IF c.current_task = None THEN {DefaultOutcome}
         ELSE TaskOutcomes(c.task_agents[c.current_task].state,
                           c.task_agents[c.current_task].fast_mode)
    ELSE RouteOutcomes(c.ac_state)

-----------------------------------------------------------------------------
(* The desktop front end: ChatGPTApp on the UI thread, MgrMessageWorker on *)
(* the worker thread.  A slot of the UI thread is a sequence of calls      *)
(* (ui_ops); the worker thread may run between two of them.                *)

M_empty == << >>
M_yes == <<"y", "e", "s">>
M_no == <<"n", "o">>
M_date == <<"2","0","2","4","-","0","2","-","2","9">>
M_baddate == <<"2","0","2","4","-","1","3","-","0","1">>
F_csv == << FilePrefix, "a", ".", "c", "s", "v" >>

\* the messages the user sends: typed, or a file chosen in the file dialog
AppMsgs == {M_yes, M_date, M_baddate, F_csv}

\* the rows of the task table the user clicks
AppGroups == GroupNames \ {"H", "K", "M"}

\* the observation of a step: the call, the message it was given, the
\* response and signal it returned, the task it was about, the classifier's
\* answer, the slot it belongs to (for the worker: the state of the
\* collection it started in) and whether that slot has returned; a call of
\* process_message also leaves the outcome o of the external calls it made;
\* a call made on the TaskAgent directly leaves the attempts of its answer;
\* a request of the web service leaves the session it came with
Obs(step, msg, resp, sig, task, intent, slot, done) ==
    [step |-> step, msg |-> msg, resp |-> resp, sig |-> sig, task |-> task,
     intent |-> intent, slot |-> slot, done |-> done, o |-> DefaultOutcome,
     attempts |-> 0, session |-> None]

\* one call of a slot
Op(slot, op, task, name, path) ==
    [slot |-> slot, op |-> op, task |-> task, name |-> name, path |-> path]

\* ChatGPTApp.on_task_selected: the calls it makes on the collection
on_task_selected(slot, task_name) ==
    << Op(slot, "set_current_task_agent", task_name, None, None),
       Op(slot, "task_reset", task_name, None, None),
       Op(slot, "set_task_mode", task_name, None, None),
       Op(slot, "process_files", task_name, None, None) >>

Init ==
    /\ ac_state = "chat"
    /\ current_task = None
    /\ workflow = << >>
    /\ needed_file_list = << >>
    /\ cur_file_idx = 0
    /\ reused_output_file_set = {}
    /\ stored \in SUBSET {"d2"}
    /\ task_agents = [t \in TaskNames |-> NewTaskAgent]
    /\ worker_queue = << >>
    /\ worker_answer = << >>
    /\ ui_queue = << >>
    /\ ui_ops = << >>
    /\ last = Obs("init", NoneStr, None, None, None, None, None, TRUE)
    /\ events = 0

\* the signals whose slot does more than show a bubble ("selection" and
\* "switch date" are acted on too, but the collection never returns them)
Effective(kind, sig) ==
    IF kind = "response" THEN sig = "switch task"
    ELSE sig \in {"file", "process", "next_task", "early exit", "over"}

\* MgrMessageWorker.process_message: the signal it emits for the answer
\* (response, extra_info) it holds, from the state and the current task the
\* collection c has when it emits.  In state "task" the response goes out
\* first through task_response, a signal of a str: a response of None raises
\* there and operation_signal is never emitted.
Emitted(c, response, extra_info) ==
    LET e == IF c.ac_state # "task"
             THEN [kind |-> "response", sig |-> extra_info, task |-> None]
             ELSE [kind |-> "operation", sig |-> extra_info, task |-> c.current_task]
    IN  IF c.ac_state = "task" /\ response = None THEN << >>
        ELSE IF Effective(e.kind, e.sig) THEN << e >> ELSE << >>

\* MgrMessageWorker.process_message on the call at the head of the queue:
\* the call of AgentCollection.process_message, up to its return
WorkerProcessMessage ==
    /\ worker_queue # << >>
    /\ worker_answer = << >>
    /\ \E o \in ACOutcomes(AC) :
          \E r \in {ac_process_message(AC, Head(worker_queue), o)} :
          LET message == Head(worker_queue)
              delegated == ac_state = "task" /\ current_task # None
              routed == ac_state \notin {"date", "task"}
          IN  /\ Becomes(r.c)
              /\ worker_queue' = Tail(worker_queue)
              /\ worker_answer' = << [resp |-> r.resp, sig |-> r.sig] >>
              /\ last' = [Obs("process_message", message, r.resp, r.sig,
                              IF delegated THEN current_task ELSE None,
                              IF routed THEN o.intent ELSE None, ac_state, FALSE)
                             EXCEPT !.o = o]
    /\ UNCHANGED <<ui_queue, ui_ops, events>>

\* MgrMessageWorker.process_message after the return of the collection: it
\* reads the state (and, in state task, the current task) the collection
\* has by now and emits the answer it holds
WorkerEmit ==
    /\ worker_answer # << >>
    /\ LET a == worker_answer[1]
           e == Emitted(AC, a.resp, a.sig)
       IN  /\ Len(ui_queue) + Len(e) <= MaxUiQueue
           /\ ui_queue' = ui_queue \o e
           /\ last' = Obs("emit", NoneStr, a.resp, a.sig,
                          IF ac_state = "task" THEN current_task ELSE None,
                          None, ac_state, TRUE)
    /\ worker_answer' = << >>
    /\ UNCHANGED <<ac_state, current_task, workflow, needed_file_list, cur_file_idx,
                   reused_output_file_set, stored, task_agents, worker_queue,
                   ui_ops, events>>

\* the UI thread is between two slots
UiIdle == ui_ops = << >>

\* ChatGPTApp._on_cell_click on the row of group g
CellClick(g) ==
    /\ UiIdle
    /\ events < MaxEvents
    /\ events' = events + 1
    /\ ac_state # "task"
    /\ Len(workflow) + Len(TasksInGroup(g)) <= MaxWorkflow
    /\ LET tasks_in_group == TasksInGroup(g)
       IN  ui_ops' = [i \in 1..Len(tasks_in_group) |->
                         Op("_on_cell_click", "append", tasks_in_group[i], None, None)]
                     \o on_task_selected("_on_cell_click", tasks_in_group[1])
    /\ last' = Obs("_on_cell_click", NoneStr, None, None, None, None, "_on_cell_click", FALSE)
    /\ UNCHANGED <<ac_state, current_task, workflow, needed_file_list, cur_file_idx,
                   reused_output_file_set, stored, task_agents, worker_queue,
                   worker_answer, ui_queue>>

\* ChatGPTApp.send_message (return pressed, or one file of the file dialog)
SendMessage(m) ==
    /\ UiIdle
    /\ events < MaxEvents
    /\ events' = events + 1
    /\ Len(worker_queue) < MaxQueue
    /\ worker_queue' = Append(worker_queue,
                              IF ac_state = "task" /\ m = << >> THEN M_yes ELSE m)
    /\ last' = Obs("send_message", NoneStr, None, None, None, None, "send_message", TRUE)
    /\ UNCHANGED <<ac_state, current_task, workflow, needed_file_list, cur_file_idx,
                   reused_output_file_set, stored, task_agents, worker_answer,
                   ui_queue, ui_ops>>

\* ChatGPTApp.start_new_chat (with create_new_chat)
StartNewChat ==
    /\ UiIdle
    /\ events < MaxEvents
    /\ events' = events + 1
    /\ ui_ops' = << Op("start_new_chat", "reset_current", None, None, None),
                    Op("start_new_chat", "delete_all_files", None, None, None),
                    Op("start_new_chat", "workflow_clear", None, None, None),
                    Op("start_new_chat", "reset_all_task_agents", None, None, None) >>
    /\ last' = Obs("start_new_chat", NoneStr, None, None, None, None, "start_new_chat", FALSE)
    /\ UNCHANGED <<ac_state, current_task, workflow, needed_file_list, cur_file_idx,
                   reused_output_file_set, stored, task_agents, worker_queue,
                   worker_answer, ui_queue>>

\* ChatGPTApp._process_agent_collection_response: the calls of the slot
_process_agent_collection_response(extra_info) ==
    IF ac_state = "date" /\ extra_info = "switch task"
    THEN << Op("switch task", "set_state_task", None, None, None),
            Op("switch task", "set_task_speed_mode", None, None, None),
            Op("switch task", "_process_waiting_tasks", None, None, None) >>
    ELSE << >>

\* _process_task_operation_signal setting the replaced file before the
\* successor is selected
_process_task_operation_signal_replaced_first(operation_signal, t) ==
    CASE operation_signal = "file" ->
           << Op("file", "send_message_simple_version", None, None, None) >>
      [] operation_signal = "process" ->
           IF task_agents[t].fast_mode
           THEN << Op("process", "send_message_simple_version", None, None, None) >>
           ELSE << >>
      [] operation_signal = "next_task" ->
           << Op("next_task", "set_replaced", t,
                 task_info_dict[t].next_task_replaced_file_name,
                 task_agents[t].saved_file_path) >>
           \o on_task_selected("next_task", task_info_dict[t].next_task_name)
      [] operation_signal = "early exit" ->
           << Op("early exit", "set_mgr_mode", None, None, None) >>
      [] operation_signal = "over" ->
           << Op("over", "waiting_tasks_or_menu", None, None, None) >>
      [] OTHER -> << >>

\* ChatGPTApp._process_task_operation_signal: the calls of the slot (the
\* call that sets the replaced file carries the signalling task)
_process_task_operation_signal(operation_signal, t) ==
    CASE operation_signal = "file" ->
           << Op("file", "send_message_simple_version", None, None, None) >>
      [] operation_signal = "process" ->
           IF task_agents[t].fast_mode
           THEN << Op("process", "send_message_simple_version", None, None, None) >>
           ELSE << >>
      [] operation_signal = "next_task" ->
           on_task_selected("next_task", task_info_dict[t].next_task_name)
           \o << Op("next_task", "set_replaced", t,
                    task_info_dict[t].next_task_replaced_file_name,
                    task_agents[t].saved_file_path) >>
      [] operation_signal = "early exit" ->
           << Op("early exit", "set_mgr_mode", None, None, None) >>
      [] operation_signal = "over" ->
           << Op("over", "waiting_tasks_or_menu", None, None, None) >>
      [] OTHER -> << >>

\* the UI thread takes the next queued signal of the worker and enters its slot
UiSignal ==
    /\ UiIdle
    /\ ui_queue # << >>
    /\ LET e == Head(ui_queue)
           ops == IF e.kind = "response"
                  THEN _process_agent_collection_response(e.sig)
                  ELSE _process_task_operation_signal(e.sig, e.task)
       IN  /\ ui_ops' = ops
           /\ last' = Obs("signal", NoneStr, None, e.sig, e.task, None, e.sig, ops = << >>)
    /\ ui_queue' = Tail(ui_queue)
    /\ UNCHANGED <<events, ac_state, current_task, workflow, needed_file_list, cur_file_idx,
                   reused_output_file_set, stored, task_agents, worker_queue,
                   worker_answer>>

\* _process_waiting_tasks selecting the head of the work queue without
\* taking it out
_process_waiting_tasks_peek(c, slot) ==
    IF c.workflow # << >>
    THEN [c |-> c, ops |-> on_task_selected(slot, Head(c.workflow))]
    ELSE [c |-> c, ops |-> << >>]

\* ChatGPTApp._process_waiting_tasks: the collection after popleft, and the
\* calls of on_task_selected for the task taken
_process_waiting_tasks(c, slot) ==
    IF c.workflow # << >>
    THEN [c |-> [c EXCEPT !.workflow = Tail(@)],
          ops |-> on_task_selected(slot, Head(c.workflow))]
    ELSE [c |-> c, ops |-> << >>]

\* the effect of one call of a slot on the collection, and the calls it puts
\* before the rest of the slot (skip: how many of the next calls are left out)
Call(c, op) ==
    LET same == [c |-> c, ops |-> << >>, skip |-> 0]
        w == _process_waiting_tasks(c, op.slot)
        cur == c.current_task
    IN  CASE op.op = "append" ->
               [same EXCEPT !.c = [c EXCEPT !.workflow = Append(@, op.task)]]
          [] op.op = "set_current_task_agent" ->
               LET r == set_current_task_agent(c, op.task)
               IN  [same EXCEPT !.c = r.c, !.skip = IF r.ok THEN 0 ELSE 3]
          [] op.op = "task_reset" -> [same EXCEPT !.c = reset_task(c, cur)]
          [] op.op \in {"set_task_mode", "set_state_task"} ->
               [same EXCEPT !.c = set_state(c, "task")]
          [] op.op = "process_files" -> [same EXCEPT !.c = process_files(c).c]
          [] op.op = "set_task_speed_mode" -> [same EXCEPT !.c = set_task_speed_mode(c)]
          [] op.op = "_process_waiting_tasks" -> [same EXCEPT !.c = w.c, !.ops = w.ops]
          [] op.op = "waiting_tasks_or_menu" ->
               IF Len(c.workflow) > 0 THEN [same EXCEPT !.c = w.c, !.ops = w.ops]
               ELSE [same EXCEPT !.c = set_state(c, "chat")]
          [] op.op = "set_replaced" ->
               IF cur = None THEN same
               ELSE [same EXCEPT !.c = [c EXCEPT
                         !.task_agents[cur].replaced_file_name = op.name,
                         !.task_agents[cur].replaced_file_path = op.path]]
          [] op.op = "set_mgr_mode" -> [same EXCEPT !.c = set_state(c, "chat")]
          [] op.op = "reset_current" ->
               IF cur = None THEN same
               ELSE [same EXCEPT !.c = [reset_task(c, cur) EXCEPT !.current_task = None]]
          [] op.op = "delete_all_files" -> [same EXCEPT !.c = [c EXCEPT !.stored = {}]]
          [] op.op = "workflow_clear" -> [same EXCEPT !.c = [c EXCEPT !.workflow = << >>]]
          [] op.op = "reset_all_task_agents" -> [same EXCEPT !.c = reset_all_task_agents(c)]
          [] OTHER -> same

\* the UI thread makes the next call of the slot it is in
UiStep ==
    /\ ui_ops # << >>
    /\ LET op == Head(ui_ops)
           r == Call(AC, op)
           rest == r.ops \o SubSeq(ui_ops, 2 + r.skip, Len(ui_ops))
           sends == op.op = "send_message_simple_version"
       IN  /\ sends => Len(worker_queue) < MaxQueue
           /\ Becomes(r.c)
           /\ ui_ops' = rest
           /\ worker_queue' = IF sends THEN Append(worker_queue, M_yes)
                               ELSE worker_queue
           /\ last' = Obs(op.op, NoneStr, None, None, op.task, None, op.slot, rest = << >>)
    /\ UNCHANGED <<worker_answer, ui_queue, events>>

Next ==
    \/ \E g \in AppGroups : CellClick(g)
    \/ \E m \in AppMsgs : SendMessage(m)
    \/ StartNewChat
    \/ UiSignal
    \/ UiStep
    \/ WorkerProcessMessage
    \/ WorkerEmit

Spec == Init /\ [][Next]_vars

-----------------------------------------------------------------------------
(* A TaskAgent driven directly, as PayrollService and the tests drive it:  *)
(* the methods of the current task are called one at a time.               *)

\* the texts given to TaskAgent.process_message
TaskMsgs == { M_empty, M_yes, M_no, <<" ", "N", "O", "\n">>, <<"0">>, <<"<iie>">>,
              <<"f", "a", "l", "s", "e">>, <<"s", "k", "i", "p">>, <<"1", "2">>,
              <<"n", "o", "w">>, <<"1">> }

InitTask ==
    /\ ac_state = "task"
    /\ current_task \in TaskNames
    /\ workflow = << >>
    /\ needed_file_list = << >>
    /\ cur_file_idx = 0
    /\ reused_output_file_set = {}
    /\ stored \in {{}, Defs}
    /\ task_agents = [t \in TaskNames |-> NewTaskAgent]
    /\ worker_queue = << >>
    /\ worker_answer = << >>
    /\ ui_queue = << >>
    /\ ui_ops = << >>
    /\ last = Obs("init", NoneStr, None, None, None, None, None, TRUE)
    /\ events = 0

\* only the fields of the current task, the database and the observation change
TaskFrame ==
    UNCHANGED <<ac_state, current_task, workflow, needed_file_list, cur_file_idx,
                reused_output_file_set, worker_queue, worker_answer, ui_queue,
                ui_ops, events>>

\* TaskAgent.process_message(message) on the current task; a call that
\* raises leaves the agent as it was
TaskProcessMessage(message) ==
    /\ \E o \in TaskOutcomes(task_agents[current_task].state,
                              task_agents[current_task].fast_mode) :
          \E r \in {task_process_message(current_task, task_agents[current_task],
                                         stored, message, o)} :
          LET t == current_task
          IN  /\ task_agents' = IF r.sig = "RAISE" THEN task_agents
                                 ELSE [task_agents EXCEPT ![t] = r.ta]
              /\ stored' = r.stored
              /\ last' = [Obs("process_message", message, r.resp, r.sig, t, None,
                              task_agents[t].state, TRUE)
                             EXCEPT !.o = o, !.attempts = r.attempts]
    /\ TaskFrame

\* TaskAgent.set_fast_mode
SetFastMode ==
    /\ task_agents' = [task_agents EXCEPT ![current_task].fast_mode = TRUE]
    /\ last' = Obs("set_fast_mode", NoneStr, None, None, current_task, None,
                   task_agents[current_task].state, TRUE)
    /\ UNCHANGED stored
    /\ TaskFrame

\* TaskAgent.set_normal_mode
SetNormalMode ==
    /\ task_agents' = [task_agents EXCEPT ![current_task].fast_mode = FALSE]
    /\ last' = Obs("set_normal_mode", NoneStr, None, None, current_task, None,
                   task_agents[current_task].state, TRUE)
    /\ UNCHANGED stored
    /\ TaskFrame

\* TaskAgent.set_next_state
SetNextState ==
    /\ task_agents' = [task_agents EXCEPT ![current_task] = set_next_state(@)]
    /\ last' = Obs("set_next_state", NoneStr, None, None, current_task, None,
                   task_agents[current_task].state, TRUE)
    /\ UNCHANGED stored
    /\ TaskFrame

\* TaskAgent.reset
TaskReset ==
    /\ task_agents' = [task_agents EXCEPT ![current_task] = task_reset(@)]
    /\ last' = Obs("reset", NoneStr, None, None, current_task, None,
                   task_agents[current_task].state, TRUE)
    /\ UNCHANGED stored
    /\ TaskFrame

NextTask ==
    \/ \E message \in TaskMsgs : TaskProcessMessage(message)
    \/ SetFastMode
    \/ SetNormalMode
    \/ SetNextState
    \/ TaskReset

SpecTask == InitTask /\ [][NextTask]_vars

-----------------------------------------------------------------------------
(* The collection in state "date" with one message on its way: the state   *)
(* after the last file of the plan of [G(1), G(2)] was stored.             *)

\* the texts a date is typed as
DateInputs ==
    {y \o s1 \o m \o s2 \o d \o e :
        y \in {<<"2","0","2","4">>, <<"2","4">>, <<"2","0","x","4">>},
        s1 \in {<<"-">>, <<"/">>},
        m \in {<<"0","1">>, <<"1","2">>, <<"1","3">>, <<"0","0">>, <<"0","2">>},
        s2 \in {<<"-">>, <<"/">>},
        d \in {<<"0","1">>, <<"3","1">>, <<"3","2">>, <<"0","0">>, <<"1">>},
        e \in {<< >>, <<"\n">>, <<" ">>, <<"-">>}}

InitDate ==
    /\ ac_state = "date"
    /\ current_task = "G(1)"
    /\ workflow = << "G(1)", "G(2)" >>
    /\ needed_file_list = NeededOf(workflow)
    /\ cur_file_idx = Len(needed_file_list)
    /\ reused_output_file_set = {"d2"}
    /\ stored = {"d1", "d3"}
    /\ task_agents = [t \in TaskNames |-> [NewTaskAgent EXCEPT !.current_date = Today]]
    /\ worker_answer = << >>
    /\ ui_queue = << [kind |-> "response", sig |-> "switch task", task |-> None] >>
    /\ ui_ops = << >>
    /\ \E message \in DateInputs :
          /\ worker_queue = << message >>
          /\ last = Obs("send_message", NoneStr, None, None, None, None,
                        "send_message", TRUE)
    /\ events = MaxEvents

NextDate ==
    \/ WorkerProcessMessage
    \/ WorkerEmit
    \/ UiSignal
    \/ UiStep

SpecDate == InitDate /\ [][NextDate]_vars

-----------------------------------------------------------------------------
(* The collection in state file with one or two messages queued: a file     *)
(* chosen in the file dialog (select_multiple_files sends one message per   *)
(* file) or a typed text.                                                   *)

F_txt == << FilePrefix, "a", ".", "t", "x", "t" >>
F_missing == << FilePrefix, "b", ".", "c", "s", "v" >>

\* the messages queued in state file
FileMsgs == {F_csv, F_txt, F_missing, M_yes}

\* the collection in state file: after a click on group G (nothing uploaded
\* yet, or f1 uploaded; f2 possibly left in the database by an earlier
\* session), and after the hand-off that took the only task H out of the
\* work queue (process_files on an empty queue: no needed file)
FilePlans ==
    { [current_task |-> "G(1)", workflow |-> << "G(1)", "G(2)" >>,
       cur_file_idx |-> i, reused |-> {"d2"}, stored |-> st, date |-> NoneStr] :
          i \in {0}, st \in SUBSET {"d2"} }
    \cup
    { [current_task |-> "G(1)", workflow |-> << "G(1)", "G(2)" >>,
       cur_file_idx |-> i, reused |-> {"d2"}, stored |-> {"d1"} \cup st,
       date |-> NoneStr] : i \in {2}, st \in SUBSET {"d2"} }
    \cup
    { [current_task |-> "H", workflow |-> << >>, cur_file_idx |-> 0,
       reused |-> {}, stored |-> {"d4"}, date |-> Today] }

InitFile ==
    /\ ac_state = "file"
    /\ \E p \in FilePlans :
          /\ current_task = p.current_task
          /\ workflow = p.workflow
          /\ needed_file_list = NeededOf(p.workflow)
          /\ cur_file_idx = p.cur_file_idx
          /\ reused_output_file_set = p.reused
          /\ stored = p.stored
          /\ task_agents = [t \in TaskNames |->
                                [NewTaskAgent EXCEPT !.current_date = p.date]]
    /\ worker_answer = << >>
    /\ ui_queue = << >>
    /\ ui_ops = << >>
    /\ \E m1 \in FileMsgs, rest \in {<< >>} \cup {<< m2 >> : m2 \in FileMsgs} :
          worker_queue = << m1 >> \o rest
    /\ last = Obs("send_message", NoneStr, None, None, None, None,
                  "send_message", TRUE)
    /\ events = MaxEvents

SpecFile == InitFile /\ [][NextDate]_vars

-----------------------------------------------------------------------------
(* A run of tasks in the desktop application: the UI thread enters the     *)
(* slot that selects a task while "yes" messages are queued on the worker  *)
(* thread (typed ahead by the user); no further user action follows.       *)

\* the number of messages typed ahead
MaxRun == 7

RECURSIVE Yes(_)
\* k messages "yes"
Yes(k) == IF k = 0 THEN << >> ELSE << M_yes >> \o Yes(k - 1)

InitRun ==
    /\ \/ \* _on_cell_click has been entered for group G (f1 possibly left in
          \* the database by an earlier session)
          /\ ac_state = "chat"
          /\ current_task = None
          /\ workflow = << >>
          /\ needed_file_list = << >>
          /\ cur_file_idx = 0
          /\ reused_output_file_set = {}
          /\ stored \in {{}, {"d1"}}
          /\ task_agents = [t \in TaskNames |-> NewTaskAgent]
          /\ ui_queue = << >>
          /\ ui_ops = [i \in 1..Len(TasksInGroup("G")) |->
                          Op("_on_cell_click", "append", TasksInGroup("G")[i], None, None)]
                      \o on_task_selected("_on_cell_click", TasksInGroup("G")[1])
          /\ last = Obs("_on_cell_click", NoneStr, None, None, None, None,
                        "_on_cell_click", FALSE)
       \/ \* the files of group G are uploaded, the date is set and the signal
          \* switch task is queued for the UI thread
          /\ ac_state = "date"
          /\ current_task = "G(1)"
          /\ workflow = << "G(1)", "G(2)" >>
          /\ needed_file_list = NeededOf(workflow)
          /\ cur_file_idx = Len(needed_file_list)
          /\ reused_output_file_set = {"d2"}
          /\ stored = {"d1", "d3"}
          /\ task_agents = [t \in TaskNames |->
                                [NewTaskAgent EXCEPT !.current_date = Today]]
          /\ ui_queue = << [kind |-> "response", sig |-> "switch task", task |-> None] >>
          /\ ui_ops = << >>
          /\ last = Obs("emit", NoneStr, "the date is set", "switch task", None, None,
                        "date", TRUE)
    /\ worker_answer = << >>
    /\ \E k \in 0..MaxRun : worker_queue = Yes(k)
    /\ events = MaxEvents

SpecRun == InitRun /\ [][NextDate]_vars

-----------------------------------------------------------------------------
(* The web service: the handlers of web_application/api.py.  Every handler *)
(* is a coroutine that calls the services without awaiting in between, so  *)
(* a request is handled in one step.  All requests, whatever their         *)
(* session, go to the one PayrollService the module creates when loaded.   *)

\* the sessions that send requests
Sessions == {"s1", "s2"}

\* the module-level payroll_service: the collection a request of session
\* session_id works on (the same object for every session)
payroll_service(session_id) == AC

\* the task ids of the select requests (M, whose two output files matter to
\* the file step of the task alone, is left to the runs of one task)
WebTasks == TaskNames \ {"M"}

\* the messages of the chat requests
WebMsgs == {M_yes, M_no, M_date}

\* the web service has no threads of the desktop front end
WebFrame == UNCHANGED <<worker_queue, worker_answer, ui_queue, ui_ops, events>>

InitWeb ==
    /\ ac_state = "chat"
    /\ current_task = None
    /\ workflow = << >>
    /\ needed_file_list = << >>
    /\ cur_file_idx = 0
    /\ reused_output_file_set = {}
    /\ stored = {}
    /\ task_agents = [t \in TaskNames |-> NewTaskAgent]
    /\ worker_queue = << >>
    /\ worker_answer = << >>
    /\ ui_queue = << >>
    /\ ui_ops = << >>
    /\ last = Obs("init", NoneStr, None, None, None, None, None, TRUE)
    /\ events = 0

\* the work queue select_task builds: cleared, then the task, then the
\* other tasks of its group if the group has more than one task
SelectedWorkflow(task_id) ==
    LET tasks == TasksInGroup(GroupOf(task_id))
        Other(t) == t # task_id
    IN  << task_id >> \o (IF Len(tasks) > 1 THEN SelectSeq(tasks, Other) ELSE << >>)

\* PayrollService.reset
PayrollService_reset(c) == reset_all_task_agents(c)

\* POST /chat
chat_endpoint(session_id, message) ==
    /\ \E o \in ACOutcomes(payroll_service(session_id)) :
          \E r \in {ac_process_message(payroll_service(session_id), message, o)} :
             /\ Becomes(r.c)
             /\ last' = [Obs("chat_endpoint", message, r.resp, r.sig,
                             IF ac_state = "task" THEN current_task ELSE None,
                             IF ac_state \notin {"date", "task"} THEN o.intent ELSE None,
                             ac_state, TRUE)
                            EXCEPT !.o = o, !.session = session_id]
    /\ WebFrame

\* POST /upload: the file is read and stored, then its path goes to
\* process_message as the message of a chosen file
upload_file_endpoint(session_id, message) ==
    /\ \E o \in ACOutcomes(payroll_service(session_id)) :
          \E r \in {ac_process_message(payroll_service(session_id), message, o)} :
             /\ Becomes(r.c)
             /\ last' = [Obs("upload_file_endpoint", message, r.resp, r.sig,
                             IF ac_state = "task" THEN current_task ELSE None,
                             IF ac_state \notin {"date", "task"} THEN o.intent ELSE None,
                             ac_state, TRUE)
                            EXCEPT !.o = o, !.session = session_id]
    /\ WebFrame

\* POST /tasks/{task_id}/select
select_task(session_id, task_id) ==
    /\ LET c == [payroll_service(session_id) EXCEPT !.workflow = SelectedWorkflow(task_id)]
           r == set_current_task_agent(c, task_id)
           p == process_files(r.c)
       IN  /\ Becomes(p.c)
           /\ last' = [Obs("select_task", NoneStr, p.resp, p.sig, task_id, None,
                           ac_state, TRUE)
                          EXCEPT !.session = session_id]
    /\ WebFrame

\* POST /session/reset
reset_session(session_id) ==
    /\ Becomes(PayrollService_reset(payroll_service(session_id)))
    /\ last' = [Obs("reset_session", NoneStr, None, None, None, None, ac_state, TRUE)
                   EXCEPT !.session = session_id]
    /\ WebFrame

NextWeb ==
    \/ \E session_id \in Sessions, message \in WebMsgs :
          chat_endpoint(session_id, message)
    \/ \E session_id \in Sessions : upload_file_endpoint(session_id, F_csv)
    \/ \E session_id \in Sessions, task_id \in WebTasks : select_task(session_id, task_id)
    \/ \E session_id \in Sessions : reset_session(session_id)

SpecWeb == InitWeb /\ [][NextWeb]_vars

-----------------------------------------------------------------------------
(* A task in normal mode whose user confirms every prompt and whose        *)
(* external calls all succeed: the files are stored, code generation gives *)
(* a function, and the function gives a result for every staff code.  The  *)
(* user keeps answering as long as the task prompts.                       *)

\* every external call succeeds and every staff code gives a result
SuccessOutcome ==
    [DefaultOutcome EXCEPT !.gen = << [raise |-> FALSE, res |-> 1, err |-> 0],
                                      [raise |-> FALSE, res |-> 1, err |-> 0] >>]

\* the tasks that have an output file
ConfirmTasks == {"G(1)", "G(2)"}

InitConfirm ==
    /\ ac_state = "task"
    /\ current_task \in ConfirmTasks
    /\ workflow = << >>
    /\ needed_file_list = << >>
    /\ cur_file_idx = 0
    /\ reused_output_file_set = {}
    /\ stored = Defs
    /\ \E d \in {NoneStr, Today} :
          task_agents = [t \in TaskNames |-> [NewTaskAgent EXCEPT !.current_date = d]]
    /\ worker_queue = << >>
    /\ worker_answer = << >>
    /\ ui_queue = << >>
    /\ ui_ops = << >>
    /\ last = Obs("init", NoneStr, None, None, None, None, None, TRUE)
    /\ events = 0

\* TaskAgent.process_message on a confirmation
TaskConfirm(message) ==
    /\ \E r \in {task_process_message(current_task, task_agents[current_task],
                                      stored, message, SuccessOutcome)} :
          LET t == current_task
          IN  /\ task_agents' = IF r.sig = "RAISE" THEN task_agents
                                 ELSE [task_agents EXCEPT ![t] = r.ta]
              /\ stored' = r.stored
              /\ last' = [Obs("process_message", message, r.resp, r.sig, t, None,
                              task_agents[t].state, TRUE)
                             EXCEPT !.o = SuccessOutcome, !.attempts = r.attempts]
    /\ TaskFrame

NextConfirm == \E message \in yes_list : TaskConfirm(message)

\* the user answers every prompt
SpecConfirm == InitConfirm /\ [][NextConfirm]_vars /\ WF_vars(NextConfirm)

-----------------------------------------------------------------------------
(* AgentCollection.route_intent called on its own, in every orchestration  *)
(* state: process_message calls it in states chat and file only.           *)

\* the messages routed
RouteMsgs == {M_yes, F_csv}

\* the collection when route_intent is called: as constructed; in state
\* file on the plans of FilePlans; in state date and in state task after the
\* last file of the plan of [G(1), G(2)] was stored
RouteStarts ==
    { [ac_state |-> "chat", current_task |-> None, workflow |-> << >>,
       cur_file_idx |-> 0, reused |-> {}, stored |-> {}, date |-> NoneStr] }
    \cup
    { [ac_state |-> "file", current_task |-> p.current_task, workflow |-> p.workflow,
       cur_file_idx |-> p.cur_file_idx, reused |-> p.reused, stored |-> p.stored,
       date |-> p.date] : p \in FilePlans }
    \cup
    { [ac_state |-> s, current_task |-> "G(1)", workflow |-> << "G(1)", "G(2)" >>,
       cur_file_idx |-> Len(NeededOf(<< "G(1)", "G(2)" >>)), reused |-> {"d2"},
       stored |-> {"d1", "d3"}, date |-> d] :
          s \in {"date", "task"}, d \in {Today} }

InitRoute ==
    /\ \E p \in RouteStarts :
          /\ ac_state = p.ac_state
          /\ current_task = p.current_task
          /\ workflow = p.workflow
          /\ needed_file_list = NeededOf(p.workflow)
          /\ cur_file_idx = p.cur_file_idx
          /\ reused_output_file_set = p.reused
          /\ stored = p.stored
          /\ task_agents = [t \in TaskNames |->
                                [NewTaskAgent EXCEPT !.current_date = p.date]]
    /\ worker_queue = << >>
    /\ worker_answer = << >>
    /\ ui_queue = << >>
    /\ ui_ops = << >>
    /\ last = Obs("init", NoneStr, None, None, None, None, None, TRUE)
    /\ events = 0

\* the outcomes that differ in the calls route_intent makes from c, the
\* intent being any string of IntentType or another string
RouteCallOutcomes(c) ==
    {o \in RouteOutcomes(c.ac_state) : o.intent # "raise"}
    \cup {[DefaultOutcome EXCEPT !.intent = "unknown"]}
    \cup (IF c.ac_state = "task" /\ c.current_task # None
          THEN {[o EXCEPT !.intent = "confirmation"] :
                    o \in TaskOutcomes(c.task_agents[c.current_task].state,
                                       c.task_agents[c.current_task].fast_mode)}
          ELSE {})

\* AgentCollection.route_intent(intent_response, message)
RouteIntent(message) ==
    /\ \E o \in RouteCallOutcomes(AC) :
          \E r \in {route_intent(AC, o.intent, message, o)} :
             /\ Becomes(r.c)
             /\ last' = [Obs("route_intent", message, r.resp, r.sig,
                             IF ac_state = "task" THEN current_task ELSE None,
                             o.intent, ac_state, TRUE)
                            EXCEPT !.o = o]
    /\ WebFrame

NextRoute == \E message \in RouteMsgs : RouteIntent(message)

SpecRoute == InitRoute /\ [][NextRoute]_vars

-----------------------------------------------------------------------------
(* Properties *)

\* the fixed orders of the execution states
NormalOrder == << "prepare", "file", "analysis", "process", "test", "work",
                  "revise", "continue", "over" >>
FastOrder == << "prepare", "file", "process", "over" >>

\* the position of x in seq, 0 when it is not there
PosIn(seq, x) ==
    IF \E i \in DOMAIN seq : seq[i] = x
    THEN CHOOSE i \in DOMAIN seq : seq[i] = x
    ELSE 0

\* the state one call of set_next_state after state x along an order
After(order, x) ==
    IF PosIn(order, x) < Len(order) THEN order[PosIn(order, x) + 1] ELSE x

\* C1: a call of set_next_state moves the task exactly one place along the
\* order of its mode -- prepare, file, process, over in fast mode (over on
\* the 3rd call from prepare), prepare, file, analysis, process, test, work,
\* revise, continue, over in normal mode (over on the 8th call) -- and a call
\* in state over leaves it at over in both modes.
C1_set_next_state_order ==
    [][ last'.step = "set_next_state" =>
          LET ta == task_agents[current_task]
              order == IF ta.fast_mode THEN FastOrder ELSE NormalOrder
          IN  /\ PosIn(order, ta.state) > 0 =>
                    task_agents'[current_task].state = After(order, ta.state)
              /\ ta.state = "over" => task_agents'[current_task].state = "over" ]_vars

\* C1: a fast task that a call of set_next_state took from process to over
C1_witness ==
    /\ last.step = "set_next_state"
    /\ last.slot = "process"
    /\ task_agents[current_task].fast_mode
    /\ task_agents[current_task].state = "over"

\* C2: when the slot of signal over finds the work queue non-empty, it takes
\* the head out of the queue and goes on, in the same slot, to select it; the
\* selection makes it the current task; no user action is taken while the
\* slot runs, and when the slot returns the task taken is the current task.
C2_over_hands_off_to_next ==
    /\ [][ ( /\ ui_ops # << >>
             /\ Head(ui_ops).op = "waiting_tasks_or_menu"
             /\ Len(workflow) > 0
             /\ ui_ops' # ui_ops )
           => ( /\ workflow' = Tail(workflow)
                /\ ui_ops' # << >>
                /\ Head(ui_ops').slot = "over"
                /\ Head(ui_ops').op = "set_current_task_agent"
                /\ Head(ui_ops').task = Head(workflow) ) ]_vars
    /\ [][ ( /\ ui_ops # << >>
             /\ Head(ui_ops).slot = "over"
             /\ Head(ui_ops).op = "set_current_task_agent"
             /\ ui_ops' # ui_ops )
           => current_task' = Head(ui_ops).task ]_vars
    /\ [][ ui_ops # << >> => events' = events ]_vars
    /\ [] ( (last.slot = "over" /\ last.step = "process_files" /\ last.done)
            => current_task = last.task )

\* C2: G(1) and G(2) were queued together, G(1) ran to over and saved its
\* result, and the slot of its signal over has returned with G(2) taken out
\* of the queue and current
C2_witness ==
    /\ last.slot = "over"
    /\ last.step = "process_files"
    /\ last.done
    /\ task_agents["G(1)"].state = "over"
    /\ task_agents["G(1)"].saved_file_path = OutPath("G(1)")
    /\ current_task = "G(2)"
    /\ workflow = << >>

\* C3: right after set_task_speed_mode in the slot of "switch task", and
\* before the first task is taken out of the work queue, every queued task
\* is in fast mode if the queue holds more than one entry and in normal mode
\* if it holds exactly one.
C3_speed_mode_by_queue_length ==
    (last.step = "set_task_speed_mode") =>
        /\ ui_ops # << >>
        /\ Head(ui_ops).op = "_process_waiting_tasks"
        /\ \A i \in DOMAIN workflow :
              /\ Len(workflow) > 1 => task_agents[workflow[i]].fast_mode
              /\ Len(workflow) = 1 => ~task_agents[workflow[i]].fast_mode

\* C3: two tasks are queued, speed mode was just assigned, both are fast and
\* neither has been taken out of the queue
C3_witness ==
    /\ last.step = "set_task_speed_mode"
    /\ workflow = << "G(1)", "G(2)" >>
    /\ task_agents["G(1)"].fast_mode
    /\ task_agents["G(2)"].fast_mode

\* the needed file at 0-based index j is stored (in the database st) or reused
IsSatisfied(j, st) ==
    \/ needed_file_list[j + 1].def \in st
    \/ needed_file_list[j + 1].def \in reused_output_file_set

\* C4: a successful upload in state file stores the file at the cursor and
\* moves the cursor forward past it and past every following file that is
\* stored or reused, to the first file that is neither (or to the end of the
\* list); and planning leaves the cursor on the first file when that file is
\* not satisfied.
C4_cursor_skips_satisfied ==
    /\ [][ ( /\ last'.step = "process_message"
             /\ last'.slot = "file"
             /\ last'.intent = "file_upload"
             /\ last'.resp \in {"upload the file at the cursor", "the date is set"} )
           => ( /\ needed_file_list' = needed_file_list
                /\ needed_file_list[cur_file_idx + 1].def \in stored'
                /\ cur_file_idx' > cur_file_idx
                /\ cur_file_idx' <= Len(needed_file_list)
                /\ \A j \in (cur_file_idx + 1)..(cur_file_idx' - 1) :
                      IsSatisfied(j, stored')
                /\ cur_file_idx' < Len(needed_file_list)
                      => ~IsSatisfied(cur_file_idx', stored') ) ]_vars
    /\ [] ( ( /\ last.step = "process_files"
              /\ needed_file_list # << >>
              /\ ~IsSatisfied(0, stored) )
            => cur_file_idx = 0 )

\* C4: the plan has three files, the second was stored before the first was
\* uploaded, and the upload of the first has left the cursor on the third
C4_witness ==
    /\ last.step = "process_message"
    /\ last.slot = "file"
    /\ last.resp = "upload the file at the cursor"
    /\ Len(needed_file_list) = 3
    /\ {"d1", "d2"} \subseteq stored
    /\ "d3" \notin stored
    /\ cur_file_idx = 2

\* C5: a message classified as task_start is answered with signal selection
\* (the matched task names having been appended to the work queue).
C5_task_start_selection ==
    (last.step = "process_message" /\ last.intent = "task_start")
        => last.sig = "selection"

\* task t has no file that is an output file or a required file
ZeroRequired(t) ==
    \A i \in DOMAIN task_info_dict[t].files :
        /\ ~task_info_dict[t].files[i].output
        /\ "required" \in DOMAIN task_info_dict[t].files[i]
        /\ ~task_info_dict[t].files[i].required

\* the no-variants: no, 0, false and the Japanese no
NoVariants == { <<"n", "o">>, <<"0">>, <<"f", "a", "l", "s", "e">>, <<"<iie>">> }

\* the message, lower-cased and trimmed, is a no-variant
IsNoVariant(message) == strip(lower(message)) \in NoVariants

\* C6 as stated: for a task with zero required files, process_message
\* returns the output-file-required text with signal early exit for every
\* input text, every execution state and both modes.
C6_zero_files_any_input ==
    (last.step = "process_message" /\ ZeroRequired(last.task))
        => (last.resp = "an output file is required" /\ last.sig = "early exit")

\* C6 amended: for a task with zero required files, process_message returns
\* signal early exit in every execution state and both modes and leaves the
\* task as it was; the text is the output-file-required text for every input
\* that is not a no-variant, and the end-of-process text for a no-variant.
C6_zero_files_unless_no ==
    [][ (last'.step = "process_message" /\ ZeroRequired(last'.task))
          => ( /\ last'.sig = "early exit"
               /\ task_agents' = task_agents
               /\ last'.resp = IF IsNoVariant(last'.msg) THEN "ending the process"
                                ELSE "an output file is required" ) ]_vars

\* C6: task H, which has no required file, in fast mode and state work, was
\* sent yes and answered with the output-file-required text
C6_witness ==
    /\ last.step = "process_message"
    /\ last.task = "H"
    /\ last.msg = M_yes
    /\ last.slot = "work"
    /\ task_agents["H"].fast_mode
    /\ last.resp = "an output file is required"
    /\ last.sig = "early exit"

\* C7: in every execution state and both modes, process_message on a
\* message that is a no-variant once lower-cased and trimmed returns signal
\* early exit, and no state handler has run: the task's fields and the
\* database are as before the call.
C7_no_variant_early_exit ==
    [][ (last'.step = "process_message" /\ IsNoVariant(last'.msg))
          => ( /\ last'.sig = "early exit"
               /\ task_agents' = task_agents
               /\ stored' = stored ) ]_vars

\* C7: a task with a required file, in normal mode and state work, was sent
\* " NO" followed by a newline and answered early exit
C7_witness ==
    /\ last.step = "process_message"
    /\ last.msg = <<" ", "N", "O", "\n">>
    /\ last.task = "G(1)"
    /\ last.slot = "work"
    /\ ~task_agents["G(1)"].fast_mode
    /\ task_agents["G(1)"].state = "work"
    /\ last.sig = "early exit"

\* the number a digit stands for
DigitVal(ch) ==
    CASE ch = "0" -> 0 [] ch = "1" -> 1 [] ch = "2" -> 2 [] ch = "3" -> 3
      [] ch = "4" -> 4 [] ch = "5" -> 5 [] ch = "6" -> 6 [] ch = "7" -> 7
      [] ch = "8" -> 8 [] ch = "9" -> 9 [] OTHER -> -100

\* s is a 4-digit year, "-", a month 01..12, "-", a day 01..31
IsYMD(s) ==
    /\ Len(s) = 10
    /\ \A i \in {1, 2, 3, 4, 6, 7, 9, 10} : DigitVal(s[i]) >= 0
    /\ s[5] = "-"
    /\ s[8] = "-"
    /\ 10 * DigitVal(s[6]) + DigitVal(s[7]) \in 1..12
    /\ 10 * DigitVal(s[9]) + DigitVal(s[10]) \in 1..31

\* C8: in state date a text is accepted as the date exactly when it is a
\* 4-digit year, "-", a month 01..12, "-", a day 01..31.
C8_accepts_exactly_ymd ==
    (last.step = "process_message" /\ last.slot = "date")
        => ((last.sig = "switch task") <=> IsYMD(last.msg))

\* C9: when the slot of "switch task" (a date accepted in state date) has
\* selected the head of the work queue and returned, the collection is in
\* state task and the task taken out of the queue is the current task.
C9_hand_off_ends_in_task ==
    (last.slot = "switch task" /\ last.step = "process_files" /\ last.done)
        => (ac_state = "task" /\ current_task = last.task)

\* C10: in state date, a text the validator accepts is stamped (lower-cased)
\* as current_date of every task of the catalogue and answered with signal
\* "switch task"; a text it rejects leaves the collection in state date and
\* every task's current_date unchanged and is answered with the re-prompt
\* and an empty signal.
C10_date_stamps_every_task ==
    [][ (last'.step = "process_message" /\ last'.slot = "date")
          => IF _is_valid_date_format(lower(last'.msg))
             THEN /\ \A t \in TaskNames :
                        task_agents'[t].current_date = lower(last'.msg)
                  /\ last'.sig = "switch task"
             ELSE /\ ac_state' = "date"
                  /\ \A t \in TaskNames :
                        task_agents'[t].current_date = task_agents[t].current_date
                  /\ last'.resp = "check the date format"
                  /\ last'.sig = "" ]_vars

\* C10: a date other than the one supplied at the end of file collection
\* was typed in state date and is now current_date of H, which is not queued
C10_witness ==
    /\ last.step = "process_message"
    /\ last.slot = "date"
    /\ last.sig = "switch task"
    /\ last.msg # Today
    /\ \A i \in DOMAIN workflow : workflow[i] # "H"
    /\ task_agents["H"].current_date = last.msg

\* C11: when planning has built a non-empty needed-file list, the cursor is
\* on the first file that is neither stored nor reused; and when every
\* needed file is stored or reused the collection is in state date.
C11_planning_applies_advancement ==
    ( /\ last.step = "process_files"
      /\ needed_file_list # << >> )
    => IF \A j \in 0..(Len(needed_file_list) - 1) : IsSatisfied(j, stored)
       THEN ac_state = "date"
       ELSE /\ ac_state = "file"
            /\ cur_file_idx < Len(needed_file_list)
            /\ ~IsSatisfied(cur_file_idx, stored)
            /\ \A j \in 0..(cur_file_idx - 1) : IsSatisfied(j, stored)

\* C12: an upload in state file that moves the cursor to the end of the
\* needed-file list puts the collection in state date in the same step, with
\* today's date stamped on every task and the task-start signal (switch
\* task) returned and emitted; the answer is not a request for a date.
C12_last_upload_sets_today ==
    [][ ( /\ last'.step = "process_message"
          /\ last'.slot = "file"
          /\ last'.intent = "file_upload"
          /\ cur_file_idx < Len(needed_file_list)
          /\ cur_file_idx' = Len(needed_file_list) )
        => ( /\ ac_state' = "date"
             /\ \A t \in TaskNames : task_agents'[t].current_date = Today
             /\ last'.sig = "switch task"
             /\ last'.resp # "check the date format"
             /\ worker_answer' = << [resp |-> "the date is set",
                                     sig |-> "switch task"] >> ) ]_vars

\* C12: the third and last file of the plan has just been uploaded
C12_witness ==
    /\ last.step = "process_message"
    /\ last.slot = "file"
    /\ last.msg = F_csv
    /\ Len(needed_file_list) = 3
    /\ cur_file_idx = 3
    /\ "d3" \in stored
    /\ ac_state = "date"
    /\ last.sig = "switch task"

\* the extension of a path, in lower case, is .csv or .xlsx
IsCsvOrXlsx(path) ==
    LET n == Len(path)
        low == lower(path)
    IN  \/ n >= 4 /\ SubSeq(low, n - 3, n) = <<".", "c", "s", "v">>
        \/ n >= 5 /\ SubSeq(low, n - 4, n) = <<".", "x", "l", "s", "x">>

\* C13: a file message in state file whose path is not a file, whose
\* extension is neither .csv nor .xlsx, or whose content the validator finds
\* not to match the expected file, leaves the cursor, the stored files, the
\* needed-file list and state file as they were, and is answered with the
\* empty signal (no signal is emitted to the UI thread).
C13_failed_upload_changes_nothing ==
    [][ ( /\ last'.step = "process_message"
          /\ last'.slot = "file"
          /\ last'.intent = "file_upload"
          /\ \/ FilePath(last'.msg) \notin ExistingFiles
             \/ ~IsCsvOrXlsx(FilePath(last'.msg))
             \/ /\ cur_file_idx < Len(needed_file_list)
                /\ last'.o.validator = "mismatch" )
        => ( /\ cur_file_idx' = cur_file_idx
             /\ stored' = stored
             /\ needed_file_list' = needed_file_list
             /\ ac_state' = "file"
             /\ last'.sig = ""
             /\ last'.resp \in {"invalid file path", "only excel and csv files",
                                "the file does not match"} ) ]_vars

\* C13: a .txt file that exists was sent while the first file was awaited
C13_witness ==
    /\ last.step = "process_message"
    /\ last.slot = "file"
    /\ last.intent = "file_upload"
    /\ last.msg = F_txt
    /\ last.resp = "only excel and csv files"
    /\ ac_state = "file"
    /\ cur_file_idx = 0
    /\ "d1" \notin stored

C15_routing_error_keeps_state ==
    [][ ( /\ last'.step = "process_message"
          /\ last'.slot \notin {"date", "task"}
          /\ \/ last'.o.intent = "raise"
             \/ last'.o.intent = "task_start"
             \/ last'.o.intent = "question" /\ last'.o.chat = "raise" )
        => ( /\ last'.sig = "error"
             /\ last'.resp = "error"
             /\ ac_state' = ac_state
             /\ ac_state' = last'.slot
             /\ UNCHANGED <<current_task, workflow, needed_file_list, cur_file_idx,
                            reused_output_file_set, stored, task_agents>> )
      ]_vars

\* C15: the classifier raised on a message received in state file
C15_witness ==
    /\ last.step = "process_message"
    /\ last.slot = "file"
    /\ last.o.intent = "raise"
    /\ last.sig = "error"
    /\ ac_state = "file"

\* the step observed in last met a task-fatal error: a file load raised in
\* the file step, the rule text could not be read (file step of fast mode,
\* analysis step of normal mode), or code generation raised in the process
\* step (in fast mode: on both attempts)
FatalError ==
    LET fast == task_agents[last.task].fast_mode
    IN  \/ /\ last.slot = "file"
           /\ \/ last.o.load = "raise"
              \/ fast /\ last.o.rule = "raise" /\ last.resp # "several output files"
        \/ /\ last.slot = "analysis"
           /\ ~fast
           /\ last.msg \in yes_list \cup skip_list
           /\ last.o.rule = "raise"
        \/ /\ last.slot = "process"
           /\ ~fast
           /\ last.msg \in yes_list
           /\ last.o.gen[1].raise
        \/ /\ last.slot = "process"
           /\ fast
           /\ last.o.gen[1].raise
           /\ last.o.gen[2].raise

\* C16: a task-fatal error in the file, analysis or process step of either
\* mode leaves the task in state over and is answered with signal early exit.
C16_fatal_error_forces_over ==
    ( /\ last.step = "process_message"
      /\ last.task # None
      /\ ~ZeroRequired(last.task)
      /\ ~IsNoVariant(last.msg)
      /\ FatalError )
    => ( /\ task_agents[last.task].state = "over"
         /\ last.sig = "early exit" )

\* the answers of intent routing
RoutingAnswers ==
    {"error", "back to the menu", "no task needs a confirmation", "file identity",
     "answer", "intent not understood", "no response was generated"}

\* C17: when the run of the current task ends - its answer carries signal
\* early exit, or signal over while the work queue is empty - the end reaches
\* the UI thread as an operation signal, the slot of that signal puts the
\* collection back in state chat, and a message processed from state chat is
\* routed by intent.
C17_run_end_returns_to_chat ==
    /\ [] ( ( /\ last.step = "emit"
              /\ last.resp # None
              /\ \/ last.sig = "early exit"
                 \/ last.sig = "over" /\ workflow = << >> )
            => ( /\ ui_queue # << >>
                 /\ ui_queue[Len(ui_queue)].kind = "operation"
                 /\ ui_queue[Len(ui_queue)].sig = last.sig ) )
    /\ [] ( (last.step = "set_mgr_mode" /\ last.slot = "early exit")
            => ac_state = "chat" )
    /\ [][ (last'.step = "waiting_tasks_or_menu" /\ workflow = << >>)
           => (ac_state' = "chat" /\ ui_ops' = << >>) ]_vars
    /\ [][ (last'.step = "process_message" /\ ac_state = "chat")
           => (last'.intent # None /\ last'.resp \in RoutingAnswers) ]_vars

\* C18: the slot of signal next_task removes no entry of the work queue, and
\* when it has run for a task with a successor, the successor is the current
\* task, its replaced_file_name is the replaced-file name configured for the
\* predecessor and its replaced_file_path is the path the predecessor saved
\* its result to (the reset of the successor during its selection comes
\* before and does not erase them).
C18_next_task_hands_over_output ==
    /\ [][ (last'.slot = "next_task" /\ last'.step \notin {"process_message", "emit"})
           => workflow' = workflow ]_vars
    /\ [] ( ( /\ last.step = "set_replaced"
              /\ last.slot = "next_task"
              /\ last.task # None
              /\ task_info_dict[last.task].next_task_name # None )
            => LET succ == task_info_dict[last.task].next_task_name
               IN  /\ current_task = succ
                   /\ task_agents[succ].replaced_file_name =
                          task_info_dict[last.task].next_task_replaced_file_name
                   /\ task_agents[succ].replaced_file_path =
                          task_agents[last.task].saved_file_path
                   /\ task_agents[succ].replaced_file_path # None )

\* C18: G(1) has signalled next_task, G(2) is current and has the name and
\* the path of G(1)'s output; both tasks are still in the work queue
C18_witness ==
    /\ last.step = "set_replaced"
    /\ last.slot = "next_task"
    /\ last.task = "G(1)"
    /\ current_task = "G(2)"
    /\ task_agents["G(2)"].replaced_file_name = "f2"
    /\ task_agents["G(2)"].replaced_file_path = "output/G(1)"
    /\ workflow = << "G(1)", "G(2)" >>

\* the step observed in last is the process step of fast mode: the task has
\* required files, is in fast mode, was in state process, and the message
\* is not a negative answer
FastProcessStep ==
    /\ last.step = "process_message"
    /\ last.task # None
    /\ last.slot = "process"
    /\ task_agents[last.task].fast_mode
    /\ ~ZeroRequired(last.task)
    /\ ~IsNoVariant(last.msg)

\* the staff codes that gave a result in attempt i of the step observed in
\* last (none when the attempt raised or no staff code was loaded)
ResultsOf(i) ==
    IF last.o.gen[i].raise \/ ~task_agents[last.task].staff_codes THEN 0
    ELSE last.o.gen[i].res

\* C19: the process step of fast mode runs at most 2 code-generation
\* attempts and leaves the task in state over with signal over or early
\* exit: over only when the last attempt it ran gave a result, early exit
\* when no attempt gave a result or the last attempt raised.
C19_fast_process_terminates ==
    FastProcessStep
    => ( /\ last.attempts \in {1, 2}
         /\ task_agents[last.task].state = "over"
         /\ last.sig \in {"over", "early exit"}
         /\ last.sig = "over" => ResultsOf(last.attempts) > 0
         /\ (ResultsOf(1) = 0 /\ ResultsOf(2) = 0) => last.sig = "early exit"
         /\ (last.attempts = 2 /\ last.o.gen[2].raise) => last.sig = "early exit" )

\* C19: the first attempt raised and the second gave no result
C19_witness ==
    /\ FastProcessStep
    /\ last.o.gen[1].raise
    /\ ~last.o.gen[2].raise
    /\ last.attempts = 2
    /\ last.sig = "early exit"
    /\ task_agents[last.task].state = "over"

\* the staff codes that gave no result in attempt i of the step observed in
\* last
ErrorsOf(i) ==
    IF last.o.gen[i].raise \/ ~task_agents[last.task].staff_codes THEN 0
    ELSE last.o.gen[i].err

\* the result of the step observed in last has been written and stored
Persisted ==
    LET d == task_info_dict[last.task].next_task_replaced_file_definition
    IN  /\ task_agents[last.task].saved_file_path = OutPath(last.task)
        /\ d # None => d \in stored

C21_speed_mode_kept_while_draining ==
    [][ \A i \in DOMAIN workflow :
           task_agents[workflow[i]].fast_mode
               => task_agents'[workflow[i]].fast_mode ]_vars

\* C22: whatever the messages and the outcomes of the external calls, a call
\* of AgentCollection.process_message returns: the worker holds a (response,
\* signal) pair afterwards and no exception has propagated; and the state of
\* the collection is always one of chat, file, date, task.
C22_process_message_always_returns ==
    /\ [][ last'.step = "process_message"
           => ( /\ last'.sig # "RAISE"
                /\ worker_answer' = << [resp |-> last'.resp, sig |-> last'.sig] >>
                /\ ac_state' \in {"chat", "file", "date", "task"} ) ]_vars
    /\ [] (ac_state \in {"chat", "file", "date", "task"})

\* C22: the store raised on an uploaded file and the call returned the error
\* as its response
C22_witness ==
    /\ last.step = "process_message"
    /\ last.slot = "file"
    /\ last.intent = "file_upload"
    /\ last.o.store = "raise"
    /\ last.msg = F_csv
    /\ last.resp = "error"
    /\ worker_answer = << [resp |-> "error", sig |-> ""] >>
    /\ ac_state = "chat"

-----------------------------------------------------------------------------
\* the queue q2 is the queue q1 with entries added at its end
Enqueued(q1, q2) ==
    /\ Len(q2) > Len(q1)
    /\ SubSeq(q2, 1, Len(q1)) = q1

\* C23: the work queue changes only by an enqueue at a task selection (by
\* the routed intent task_start, by a click on a row of the task table or by
\* a select request), by the removal of its head at a task hand-off, and by
\* clearing at a session reset; every other step leaves it as it is.
C23_work_queue_frame ==
    [][ workflow' # workflow
        => \/ /\ \/ last'.step \in {"append", "select_task"}
                 \/ last'.intent = "task_start"
              /\ Enqueued(workflow, workflow')
           \/ /\ last'.step \in {"_process_waiting_tasks", "waiting_tasks_or_menu"}
              /\ workflow # << >>
              /\ workflow' = Tail(workflow)
           \/ /\ last'.step \in {"workflow_clear", "reset_session"}
              /\ workflow' = << >> ]_vars

-----------------------------------------------------------------------------
\* C24: after a session reset (start_new_chat of the desktop application,
\* POST /session/reset of the web service) the orchestration state is chat,
\* there is no current task, every task is in execution state prepare and
\* the work queue is empty.
C24_reset_restores_session ==
    last.step \in {"reset_all_task_agents", "reset_session"}
    => /\ ac_state = "chat"
       /\ current_task = None
       /\ \A t \in TaskNames : task_agents[t].state = "prepare"
       /\ workflow = << >>

-----------------------------------------------------------------------------
\* C25: TaskAgent.reset, called in any execution state, returns the task to
\* prepare and clears its mutable runtime fields (fast mode, current date,
\* generated function, staff codes, replaced file name and path); a second
\* reset changes nothing more.
C25_reset_clears_runtime_fields ==
    last.step = "reset"
    => LET ta == task_agents[last.task]
       IN  /\ ta.state = "prepare"
           /\ ~ta.fast_mode
           /\ ta.current_date = NoneStr
           /\ ~ta.generated_func
           /\ ~ta.staff_codes
           /\ ta.replaced_file_name = None
           /\ ta.replaced_file_path = None
           /\ task_reset(ta) = ta

-----------------------------------------------------------------------------
\* the UI thread is inside a slot and its next call changes the collection
SlotMutates ==
    /\ ui_ops # << >>
    /\ Head(ui_ops).op # "send_message_simple_version"

\* C26: at most one message is in flight: while the worker thread is inside
\* its handler of a message (the collection has returned, the answer is not
\* emitted yet) no step changes the collection, and the worker thread does
\* not start on a message while the UI thread is inside a slot that changes
\* the collection.
C26_one_message_in_flight ==
    [][ /\ worker_answer # << >> => AC' = AC
        /\ SlotMutates => last'.step # "process_message" ]_vars

-----------------------------------------------------------------------------
\* what session s has of the orchestration: the state, the work queue, the
\* cursor, the current task and the runtime state of the tasks of the
\* collection its requests work on
SessionStateOf(s) ==
    LET c == payroll_service(s)
    IN  << c.ac_state, c.workflow, c.cur_file_idx, c.current_task, c.task_agents >>

\* C27: sessions are independent: a request of one session (select, chat,
\* upload, reset) never changes the orchestration state, the work queue, the
\* cursor, the current task or the task runtime state of another session.
C27_sessions_independent ==
    [][ \A s \in Sessions :
           last'.session # s => SessionStateOf(s)' = SessionStateOf(s) ]_vars

-----------------------------------------------------------------------------
\* the files of task t with is_output or is_required (true when absent),
\* and those with neither, as positions in the configured list
RequiredAt(t) ==
    {i \in DOMAIN task_info_dict[t].files :
        LET f == task_info_dict[t].files[i]
        IN  f.output \/ ("required" \in DOMAIN f => f.required)}

OptionalAt(t) == DOMAIN task_info_dict[t].files \ RequiredAt(t)

\* the number of needed files of the first k tasks of the queue wf
RECURSIVE FilesBefore(_, _)
FilesBefore(wf, k) ==
    IF k = 0 THEN 0 ELSE FilesBefore(wf, k - 1) + Len(task_info_dict[wf[k]].files)

\* the list is the plan of the queue wf: task after task in queue order, the
\* required files of a task in configured order before its optional files
\* in configured order, every file tagged with its task
IsPlanOf(list, wf) ==
    /\ Len(list) = FilesBefore(wf, Len(wf))
    /\ \A k \in DOMAIN wf :
          LET t == wf[k]
              fs == task_info_dict[t].files
              base == FilesBefore(wf, k - 1)
              nreq == Cardinality(RequiredAt(t))
              \* the place in the plan of the file at position i of the task
              Place(i) ==
                  IF i \in RequiredAt(t)
                  THEN base + Cardinality({j \in RequiredAt(t) : j <= i})
                  ELSE base + nreq + Cardinality({j \in OptionalAt(t) : j <= i})
          IN  \A i \in DOMAIN fs :
                 /\ list[Place(i)].name = fs[i].name
                 /\ list[Place(i)].def = fs[i].def
                 /\ list[Place(i)].task = t

\* C28: every entry to state file plans anew: the needed-file list is built
\* by walking the work queue in order, per task its required files in
\* configured order and then its optional files in configured order, each
\* tagged with the task, and the cursor is at 0.
C28_planning_walks_the_queue ==
    [][ ( \/ last'.step \in {"select_task", "process_files"}
          \/ (ac_state # "file" /\ ac_state' = "file") )
        => /\ IsPlanOf(needed_file_list', workflow')
           /\ cur_file_idx' = 0 ]_vars

\* task K, whose optional file f5 is configured before its required file
\* f6, has been selected: the plan lists f6 before f5
C28_witness ==
    /\ last.step = "select_task"
    /\ last.task = "K"
    /\ workflow = << "K" >>
    /\ Len(needed_file_list) = 2
    /\ needed_file_list[1].name = "f6"
    /\ needed_file_list[2].name = "f5"
    /\ cur_file_idx = 0

-----------------------------------------------------------------------------
\* C29: after planning the reused-definitions set is exactly the set of the
\* successor replaced-file definitions configured on the queued tasks, and a
\* needed file whose definition is in that set counts as satisfied by
\* chaining: the cursor never rests on it, so the user is never asked to
\* upload it.
C29_reused_files_never_prompted ==
    /\ last.step \in {"select_task", "process_files"}
       => reused_output_file_set =
              {task_info_dict[workflow[i]].next_task_replaced_file_definition :
                   i \in DOMAIN workflow} \ {None}
    /\ (ac_state = "file" /\ cur_file_idx < Len(needed_file_list))
       => needed_file_list[cur_file_idx + 1].def \notin reused_output_file_set

-----------------------------------------------------------------------------
\* the file f is in the list
Listed(list, f) == \E i \in DOMAIN list : list[i].name = f.name

\* the files of the list come in the order they have in the list files
InOrderOf(list, files) ==
    \A i, j \in DOMAIN list :
        i < j => \E a, b \in DOMAIN files :
                    /\ a < b
                    /\ files[a].name = list[i].name
                    /\ files[b].name = list[j].name

\* C30: the file specs of a task are classified so that an output file is in
\* the required list whatever its is_required flag, a file that is not an
\* output file is in the required list exactly when is_required is true
\* (true when the key is absent), and every configured file is in exactly
\* one of the two lists, each list in configured order.
C30_files_classified ==
    current_task # None
    => LET files == task_info_dict[current_task].files
           required == RequiredFiles(current_task)
           optional == OptionalFiles(current_task)
       IN  /\ \A i \in DOMAIN files :
                 LET f == files[i]
                 IN  /\ f.output => Listed(required, f)
                     /\ ~f.output => ( Listed(required, f)
                                       <=> ("required" \in DOMAIN f => f.required) )
                     /\ Listed(required, f) # Listed(optional, f)
           /\ Len(required) + Len(optional) = Len(files)
           /\ InOrderOf(required, files)
           /\ InOrderOf(optional, files)

\* the files of task G(2), whose output file f3 is flagged as not required,
\* and of task K, whose file f6 has no key for required, have been loaded
C30_witness ==
    /\ current_task \in {"G(2)", "K"}
    /\ last.step = "process_message"
    /\ last.slot = "file"
    /\ task_agents[current_task].state \notin {"prepare", "file"}
    /\ Len(RequiredFiles("G(2)")) = 2
    /\ Len(RequiredFiles("K")) = 1

-----------------------------------------------------------------------------
\* C31: in normal mode, when every external step succeeds and the user
\* answers every prompt with a confirmation, the task started in prepare
\* eventually reaches the terminal state over.
C31_confirmed_task_reaches_over ==
    <>(task_agents[current_task].state = "over")

-----------------------------------------------------------------------------
\* the step observed in last is a confirmed work step of normal mode: the
\* task has required files, is in normal mode, was in state work, and the
\* message is a confirmation
WorkStep ==
    /\ last.step = "process_message"
    /\ last.task # None
    /\ last.slot = "work"
    /\ ~task_agents[last.task].fast_mode
    /\ ~ZeroRequired(last.task)
    /\ last.msg \in yes_list

\* the staff codes that gave a result in the step observed in last (none
\* without a generated function: every call raises)
WorkResults ==
    IF task_agents[last.task].generated_func THEN last.o.gen[1].res ELSE 0

-----------------------------------------------------------------------------
\* the step taken is a message to a task with required files that is in
\* normal mode and in state revise
ReviseStep ==
    /\ last'.step = "process_message"
    /\ last'.task # None
    /\ last'.slot = "revise"
    /\ ~task_agents[last'.task].fast_mode
    /\ ~ZeroRequired(last'.task)

\* the staff codes that gave a result in the retry of the step taken
RetryResults ==
    IF last'.o.gen[1].raise \/ ~task_agents[last'.task].staff_codes THEN 0
    ELSE last'.o.gen[1].res

\* in state revise skip advances to continue and changes nothing else of the
\* task (no code is generated, nothing is stored)
SkipAdvances ==
    (ReviseStep /\ last'.msg = <<"s", "k", "i", "p">>)
    => /\ task_agents' = [task_agents EXCEPT ![last'.task].state = "continue"]
       /\ stored' = stored
       /\ last'.sig = "continue"

-----------------------------------------------------------------------------
\* the step taken is a message that is not a no-variant to a task with
\* required files that is in normal mode and in state continue
ContinueStep ==
    /\ last'.step = "process_message"
    /\ last'.task # None
    /\ last'.slot = "continue"
    /\ ~task_agents[last'.task].fast_mode
    /\ ~ZeroRequired(last'.task)
    /\ ~IsNoVariant(last'.msg)

\* C34: in state continue a confirmation returns signal next_task with the
\* answer naming the successor configured on the task; any other text that
\* is not a no-variant leaves the task as it is, in state continue, and
\* returns no signal.
C34_continue_hands_to_successor ==
    [][ ContinueStep
        => IF last'.msg \in yes_list
           THEN /\ last'.sig = "next_task"
                /\ last'.resp = GoingTo(task_info_dict[last'.task].next_task_name)
           ELSE /\ last'.sig = None
                /\ task_agents' = task_agents
                /\ task_agents'[last'.task].state = "continue" ]_vars

\* task G(1) in state continue was sent "yes" and answered next_task naming
\* G(2)
C34_witness ==
    /\ last.step = "process_message"
    /\ last.slot = "continue"
    /\ last.task = "G(1)"
    /\ last.msg = M_yes
    /\ ~task_agents["G(1)"].fast_mode
    /\ last.sig = "next_task"
    /\ last.resp = "going to the next task G(2)"
    /\ task_agents["G(1)"].state = "continue"

-----------------------------------------------------------------------------
\* the step observed in last called the generated function, the function
\* raised for a staff code, and nothing else failed: in test the function
\* raised on the staff code typed; in work and revise it raised for one staff
\* code and gave a result for another, the code generation of revise and the
\* saving of the result succeeded; in the process step of fast mode likewise
\* in its first attempt
PerCodeExceptionOnly ==
    /\ last.step = "process_message"
    /\ last.task # None
    /\ ~ZeroRequired(last.task)
    /\ ~IsNoVariant(last.msg)
    /\ \/ /\ last.slot = "test"
          /\ ~task_agents[last.task].fast_mode
          /\ task_agents[last.task].generated_func
          /\ strip(last.msg) = <<"1", "2">>
          /\ last.o.test = "raise"
       \/ /\ last.slot \in {"work", "revise"}
          /\ ~task_agents[last.task].fast_mode
          /\ last.msg \in yes_list
          /\ task_agents[last.task].generated_func
          /\ task_agents[last.task].staff_codes
          /\ ~last.o.gen[1].raise
          /\ last.o.gen[1].res > 0
          /\ last.o.gen[1].err > 0
          /\ last.o.save = "ok"
       \/ /\ last.slot = "process"
          /\ task_agents[last.task].fast_mode
          /\ task_agents[last.task].staff_codes
          /\ ~last.o.gen[1].raise
          /\ last.o.gen[1].res > 0
          /\ last.o.gen[1].err > 0
          /\ ~last.o.gen[2].raise
          /\ last.o.gen[2].res > 0
          /\ last.o.save = "ok"

\* C35: an exception the generated function raises for one staff code is
\* kept with that code and is not fatal to the task: in the steps that call
\* the function (test, work, revise, the process step of fast mode) it does
\* not by itself give signal early exit, nor force the task to over (over is
\* the regular end of the process step of fast mode).
C35_per_code_exception_not_fatal ==
    PerCodeExceptionOnly
    => /\ last.sig # "early exit"
       /\ last.slot # "process" => task_agents[last.task].state # "over"

-----------------------------------------------------------------------------
\* the files of task t that are marked as output files
OutputFilesOf(t) ==
    {i \in DOMAIN task_info_dict[t].files : task_info_dict[t].files[i].output}

\* the step taken is the file step of a task with required files that has no
\* staff codes yet: every file of the task is stored and loads, and in fast
\* mode the rule file is read
FileStepLoads ==
    /\ last'.step = "process_message"
    /\ last'.task # None
    /\ last'.slot = "file"
    /\ ~ZeroRequired(last'.task)
    /\ ~IsNoVariant(last'.msg)
    /\ ~task_agents[last'.task].staff_codes
    /\ \A i \in DOMAIN task_info_dict[last'.task].files :
          task_info_dict[last'.task].files[i].def \in stored
    /\ last'.o.load = "ok"
    /\ last'.o.rule = "ok"

\* C36: in the file step a task with more than one output file is forced to
\* over without advancing and the step is reported as a fatal abort (signal
\* early exit); with exactly one output file the staff codes are taken from
\* it and the task advances to the next step of its mode.
C36_single_output_file ==
    [][ FileStepLoads
        => LET t == last'.task
               ta == task_agents'[t]
           IN  /\ Cardinality(OutputFilesOf(t)) > 1
                  => (ta.state = "over" /\ last'.sig = "early exit")
               /\ Cardinality(OutputFilesOf(t)) = 1
                  => /\ ta.staff_codes
                     /\ ta.state = IF ta.fast_mode THEN "process" ELSE "analysis"
                     /\ last'.sig = ta.state ]_vars

-----------------------------------------------------------------------------
\* C37: in state prepare, in either mode, the task advances to file (with
\* signal file) only when the message is a yes-variant or empty; any other
\* text that is not a no-variant leaves the task in state prepare.
C37_prepare_waits_for_yes ==
    [][ ( /\ last'.step = "process_message"
          /\ last'.task # None
          /\ last'.slot = "prepare"
          /\ ~ZeroRequired(last'.task)
          /\ ~IsNoVariant(last'.msg) )
        => IF last'.msg \in yes_list
           THEN /\ task_agents'[last'.task].state = "file"
                /\ last'.sig = "file"
           ELSE task_agents'[last'.task].state = "prepare" ]_vars

-----------------------------------------------------------------------------
\* a message answered by the normal-mode handler of state test
TestStep ==
    /\ last'.step = "process_message"
    /\ last'.task # None
    /\ last'.slot = "test"
    /\ ~task_agents[last'.task].fast_mode
    /\ ~ZeroRequired(last'.task)
    /\ ~IsNoVariant(last'.msg)

\* C38: in state test a yes-variant advances to work whatever the generated
\* function would do (it is not run); a digits-only string that is not a
\* yes-variant runs the generated function for that staff code (the task goes
\* on to work when the call returns; a call that raises, as does the call of
\* a function that was never generated, is the fatal case of C35); any other
\* text that is not a no-variant is answered with a re-prompt, no signal and
\* no change of the execution state.
C38_test_step ==
    [][ TestStep =>
          LET text == strip(last'.msg)
              next == task_agents'[last'.task].state
          IN  IF lower(text) \in yes_list
              THEN next = "work"
              ELSE IF IsDigitsOnly(text)
              THEN IF \/ last'.o.test = "raise"
                      \/ ~task_agents[last'.task].generated_func
                   THEN next = "over" /\ last'.sig = "early exit"
                   ELSE next = "work"
              ELSE /\ next = "test"
                   /\ last'.sig = None
                   /\ last'.resp = "enter a staff code or yes" ]_vars

\* "1" is digits-only and a yes-variant: it skipped a test that would have
\* raised, and the task is in work
C38_witness ==
    /\ last.step = "process_message"
    /\ last.task # None
    /\ last.slot = "test"
    /\ last.msg = <<"1">>
    /\ last.o.test = "raise"
    /\ ~task_agents[last.task].fast_mode
    /\ task_agents[last.task].state = "work"

-----------------------------------------------------------------------------
\* C39: when a message is routed by intent, return_to_menu puts the
\* orchestration in chat; a confirmation goes to the handler of the current
\* task only in orchestration state task with a current task, and is
\* otherwise answered that nothing is pending; question, unknown, an intent
\* the classifier made up, a confirmation that is not forwarded and a
\* file_upload in state chat leave the orchestration state, the work queue,
\* the cursor and the current task as they were.
C39_route_intent_frame ==
    [][ last'.step = "route_intent" =>
          LET intent == last'.intent
              forwarded == ac_state = "task" /\ current_task # None
              Kept == UNCHANGED <<ac_state, workflow, cur_file_idx, current_task>>
          IN  /\ intent = "return_to_menu" => ac_state' = "chat"
              /\ (intent = "confirmation" /\ forwarded) =>
                    \E r \in {task_process_message(current_task,
                                  task_agents[current_task], stored,
                                  last'.msg, last'.o)} :
                       IF r.sig = "RAISE"
                       THEN last'.sig = "error" /\ UNCHANGED task_agents
                       ELSE /\ task_agents' = [task_agents EXCEPT ![current_task] = r.ta]
                            /\ last'.resp = r.resp
                            /\ last'.sig = r.sig
              /\ (intent = "confirmation" /\ ~forwarded) =>
                    /\ last'.resp = "no task needs a confirmation"
                    /\ UNCHANGED <<task_agents, stored>>
              /\ ( \/ intent \in {"question", "unknown"}
                   \/ intent \notin IntentType
                   \/ intent = "confirmation" /\ ~forwarded
                   \/ intent = "file_upload" /\ ac_state = "chat" ) => Kept ]_vars

\* a confirmation routed in state task reached the current task, which went
\* from prepare to file
C39_witness ==
    /\ last.step = "route_intent"
    /\ last.intent = "confirmation"
    /\ last.slot = "task"
    /\ last.sig = "file"
    /\ ac_state = "task"
    /\ task_agents[current_task].state = "file"

-----------------------------------------------------------------------------
\* the step planned the files (process_files, here under select_task)
PlanningStep == last'.step \in {"select_task", "process_files"}

\* the step handled the message of a chosen file in state file, the file
\* exists and is a csv or xlsx file, every call succeeded and the file at the
\* cursor is in the database
UploadSucceeded ==
    /\ last'.step \in {"chat_endpoint", "upload_file_endpoint", "process_message"}
    /\ ac_state = "file"
    /\ last'.intent = "file_upload"
    /\ FilePath(last'.msg) \in ExistingFiles
    /\ \/ endswith(lower(FilePath(last'.msg)), <<".", "c", "s", "v">>)
       \/ endswith(lower(FilePath(last'.msg)), <<".", "x", "l", "s", "x">>)
    /\ last'.o.validator = "ok"
    /\ last'.o.store = "ok"
    /\ cur_file_idx < Len(needed_file_list)
    /\ needed_file_list[cur_file_idx + 1].def \in stored'

\* C40: the cursor stays between 0 and the length of the needed-file list;
\* between two plannings it never decreases and increases only on a
\* successful upload; and when the file handler returns after a successful
\* upload with the orchestration still in file, the cursor is inside the list
\* and the file at the cursor is neither stored nor in the
\* reused-definitions set.
C40_cursor_invariants ==
    [][ /\ 0 <= cur_file_idx'
        /\ cur_file_idx' <= Len(needed_file_list')
        /\ ~PlanningStep =>
              /\ needed_file_list' = needed_file_list
              /\ cur_file_idx' >= cur_file_idx
              /\ cur_file_idx' > cur_file_idx => UploadSucceeded
        /\ (UploadSucceeded /\ ac_state' = "file") =>
              /\ cur_file_idx' > cur_file_idx
              /\ cur_file_idx' < Len(needed_file_list')
              /\ needed_file_list'[cur_file_idx' + 1].def \notin stored'
              /\ needed_file_list'[cur_file_idx' + 1].def
                    \notin reused_output_file_set' ]_vars

\* an upload moved the cursor past a file of the reused-definitions set and
\* the orchestration still waits for a file
C40_witness ==
    /\ last.step = "upload_file_endpoint"
    /\ last.slot = "file"
    /\ last.intent = "file_upload"
    /\ last.resp = "upload the file at the cursor"
    /\ ac_state = "file"
    /\ cur_file_idx >= 2
    /\ cur_file_idx < Len(needed_file_list)
    /\ needed_file_list[cur_file_idx].def \in reused_output_file_set

====
